---------------------------- MODULE Spec2Model ----------------------------
(***************************************************************************)
(* A model of the NES emulator core of noharu36/nes_emu: the 6502          *)
(* interpreter (src/src/emu/cpu.rs), the bus (src/src/emu/bus.rs) and the  *)
(* interrupt descriptor (src/src/emu/interrupt.rs).                        *)
(*                                                                         *)
(* Every Rust method is an operator that takes the machine as a record m   *)
(* and gives the machine after the call.  A method that also returns a     *)
(* value gives a record [val, st].  A panic is recorded in m.panic; every  *)
(* operator leaves a panicked machine as it is, as unwinding does.         *)
(*                                                                         *)
(* The opcode table, the PPU, the joypad and the cartridge are not part of *)
(* the sources at hand; they are modelled from the specification.          *)
(***************************************************************************)
EXTENDS Integers, Sequences, FiniteSets, TLC

(***************************************************************************)
(* Bounds of the model.                                                    *)
(***************************************************************************)
\* run_with_callback stops fetching once this many CPU cycles were charged
MaxCycles == 40
\* the PPU reaches vertical blank at most this often in one run
MaxVblanks == 1
\* a bus exercised on its own takes at most this many calls
MaxBusOps == 2
\* one operation advances the PPU at most this often before vertical blank
MaxTickCalls == 3

(***************************************************************************)
(* u8 / u16 arithmetic.                                                    *)
(***************************************************************************)
RECURSIVE BitAnd(_, _)
BitAnd(a, b) ==
    IF a = 0 \/ b = 0 THEN 0
    ELSE (a % 2) * (b % 2) + 2 * BitAnd(a \div 2, b \div 2)

BitOr(a, b) == a + b - BitAnd(a, b)

BitXor(a, b) == a + b - 2 * BitAnd(a, b)

\* u8::wrapping_add, u8::wrapping_sub
WrapAdd8(a, b) == (a + b) % 256
WrapSub8(a, b) == (a - b + 256) % 256
\* u16::wrapping_add
WrapAdd16(a, b) == (a + b) % 65536
\* `x << 1` and `x >> 1` on a u8
Shl8(a) == (a * 2) % 256
Shr8(a) == a \div 2
\* `b as i8 as u16`: sign extension of a byte
SignExtend(b) == IF b >= 128 THEN b + 65280 ELSE b

Byte == 0..255

NoPanic == "none"

Panicked(m) == m.panic # NoPanic

\* panic!(..), todo!(), an arithmetic overflow or an index out of bounds
Panic(m, why) == IF Panicked(m) THEN m ELSE [m EXCEPT !.panic = why]

Log(m, e) == IF Panicked(m) THEN m ELSE [m EXCEPT !.events = Append(@, e)]

(***************************************************************************)
(* The opcode table (emu/opcodes.rs, not among the sources): for each of   *)
(* the 256 opcode bytes the addressing mode, the length in bytes and the   *)
(* base cycles, as section 4.1 of the specification describes it.  Row r,  *)
(* column c of a table is opcode 16 * r + c.                               *)
(***************************************************************************)
Imm == "Immediate"
Zp  == "ZeroPage"
ZpX == "ZeroPage_X"
ZpY == "ZeroPage_Y"
Abs == "Absolute"
AbX == "Absolute_X"
AbY == "Absolute_Y"
InX == "Indirect_X"
InY == "Indirect_Y"
Non == "NoneAddressing"

OpLenTable ==
   <<
      1, 2, 1, 2, 2, 2, 2, 2, 1, 2, 1, 2, 3, 3, 3, 3,
      2, 2, 1, 2, 2, 2, 2, 2, 1, 3, 1, 3, 3, 3, 3, 3,
      3, 2, 1, 2, 2, 2, 2, 2, 1, 2, 1, 2, 3, 3, 3, 3,
      2, 2, 1, 2, 2, 2, 2, 2, 1, 3, 1, 3, 3, 3, 3, 3,
      1, 2, 1, 2, 2, 2, 2, 2, 1, 2, 1, 2, 3, 3, 3, 3,
      2, 2, 1, 2, 2, 2, 2, 2, 1, 3, 1, 3, 3, 3, 3, 3,
      1, 2, 1, 2, 2, 2, 2, 2, 1, 2, 1, 2, 3, 3, 3, 3,
      2, 2, 1, 2, 2, 2, 2, 2, 1, 3, 1, 3, 3, 3, 3, 3,
      2, 2, 2, 2, 2, 2, 2, 2, 1, 2, 1, 2, 3, 3, 3, 3,
      2, 2, 1, 2, 2, 2, 2, 2, 1, 3, 1, 3, 3, 3, 3, 3,
      2, 2, 2, 2, 2, 2, 2, 2, 1, 2, 1, 2, 3, 3, 3, 3,
      2, 2, 1, 2, 2, 2, 2, 2, 1, 3, 1, 3, 3, 3, 3, 3,
      2, 2, 2, 2, 2, 2, 2, 2, 1, 2, 1, 2, 3, 3, 3, 3,
      2, 2, 1, 2, 2, 2, 2, 2, 1, 3, 1, 3, 3, 3, 3, 3,
      2, 2, 2, 2, 2, 2, 2, 2, 1, 2, 1, 2, 3, 3, 3, 3,
      2, 2, 1, 2, 2, 2, 2, 2, 1, 3, 1, 3, 3, 3, 3, 3
   >>

OpCyclesTable ==
   <<
      7, 6, 2, 8, 3, 3, 5, 5, 3, 2, 2, 2, 4, 4, 6, 6,
      2, 5, 2, 8, 4, 4, 6, 6, 2, 4, 2, 7, 4, 4, 7, 7,
      6, 6, 2, 8, 3, 3, 5, 5, 4, 2, 2, 2, 4, 4, 6, 6,
      2, 5, 2, 8, 4, 4, 6, 6, 2, 4, 2, 7, 4, 4, 7, 7,
      6, 6, 2, 8, 3, 3, 5, 5, 3, 2, 2, 2, 3, 4, 6, 6,
      2, 5, 2, 8, 4, 4, 6, 6, 2, 4, 2, 7, 4, 4, 7, 7,
      6, 6, 2, 8, 3, 3, 5, 5, 4, 2, 2, 2, 5, 4, 6, 6,
      2, 5, 2, 8, 4, 4, 6, 6, 2, 4, 2, 7, 4, 4, 7, 7,
      2, 6, 2, 6, 3, 3, 3, 3, 2, 2, 2, 3, 4, 4, 4, 4,
      2, 6, 2, 8, 4, 4, 4, 4, 2, 5, 2, 2, 4, 5, 4, 4,
      2, 6, 2, 6, 3, 3, 3, 3, 2, 2, 2, 3, 4, 4, 4, 4,
      2, 5, 2, 5, 4, 4, 4, 4, 2, 4, 2, 2, 4, 4, 4, 4,
      2, 6, 2, 8, 3, 3, 5, 5, 2, 2, 2, 2, 4, 4, 6, 6,
      2, 5, 2, 8, 4, 4, 6, 6, 2, 4, 2, 7, 4, 4, 7, 7,
      2, 6, 2, 8, 3, 3, 5, 5, 2, 2, 2, 2, 4, 4, 6, 6,
      2, 5, 2, 8, 4, 4, 6, 6, 2, 4, 2, 7, 4, 4, 7, 7
   >>

OpModeTable ==
   <<
      Non, InX, Non, InX,  Zp,  Zp,  Zp,  Zp, Non, Imm, Non, Imm, Abs, Abs, Abs, Abs,
      Non, InY, Non, InY, ZpX, ZpX, ZpX, ZpX, Non, AbY, Non, AbY, AbX, AbX, AbX, AbX,
      Non, InX, Non, InX,  Zp,  Zp,  Zp,  Zp, Non, Imm, Non, Imm, Abs, Abs, Abs, Abs,
      Non, InY, Non, InY, ZpX, ZpX, ZpX, ZpX, Non, AbY, Non, AbY, AbX, AbX, AbX, AbX,
      Non, InX, Non, InX,  Zp,  Zp,  Zp,  Zp, Non, Imm, Non, Imm, Non, Abs, Abs, Abs,
      Non, InY, Non, InY, ZpX, ZpX, ZpX, ZpX, Non, AbY, Non, AbY, AbX, AbX, AbX, AbX,
      Non, InX, Non, InX,  Zp,  Zp,  Zp,  Zp, Non, Imm, Non, Imm, Non, Abs, Abs, Abs,
      Non, InY, Non, InY, ZpX, ZpX, ZpX, ZpX, Non, AbY, Non, AbY, AbX, AbX, AbX, AbX,
      Imm, InX, Imm, InX,  Zp,  Zp,  Zp,  Zp, Non, Imm, Non, Imm, Abs, Abs, Abs, Abs,
      Non, InY, Non, InY, ZpX, ZpX, ZpY, ZpY, Non, AbY, Non, AbY, AbX, AbX, AbY, AbY,
      Imm, InX, Imm, InX,  Zp,  Zp,  Zp,  Zp, Non, Imm, Non, Imm, Abs, Abs, Abs, Abs,
      Non, InY, Non, InY, ZpX, ZpX, ZpY, ZpY, Non, AbY, Non, AbY, AbX, AbX, AbY, AbY,
      Imm, InX, Imm, InX,  Zp,  Zp,  Zp,  Zp, Non, Imm, Non, Imm, Abs, Abs, Abs, Abs,
      Non, InY, Non, InY, ZpX, ZpX, ZpX, ZpX, Non, AbY, Non, AbY, AbX, AbX, AbX, AbX,
      Imm, InX, Imm, InX,  Zp,  Zp,  Zp,  Zp, Non, Imm, Non, Imm, Abs, Abs, Abs, Abs,
      Non, InY, Non, InY, ZpX, ZpX, ZpX, ZpX, Non, AbY, Non, AbY, AbX, AbX, AbX, AbX
   >>


\* opcodes.get(&code): the record of an opcode byte
OpCode(code) ==
    [code   |-> code,
     len    |-> OpLenTable[code + 1],
     cycles |-> OpCyclesTable[code + 1],
     mode   |-> OpModeTable[code + 1]]

(***************************************************************************)
(* emu/interrupt.rs                                                        *)
(***************************************************************************)
MNI ==
    [itype       |-> "MNI",
     vector_addr |-> \hFFFA,
     b_flag_mask |-> \h20,
     cpu_cycles  |-> 2]

(***************************************************************************)
(* Memory contents.  cpu_vram: [u8; 2048], rom.bytes: Vec<u8> and the      *)
(* PPU's OAM are functions from an index to a byte in which the cells that *)
(* hold the fill byte (0 for RAM and OAM) are left out of the domain.      *)
(***************************************************************************)
CellAt(mem, i, fill) == IF i \in DOMAIN mem THEN mem[i] ELSE fill

CellPut(mem, i, v, fill) ==
    IF v # fill THEN (i :> v) @@ mem
    ELSE IF i \in DOMAIN mem THEN [j \in DOMAIN mem \ {i} |-> mem[j]]
    ELSE mem

NoCells == [j \in {} |-> 0]

(***************************************************************************)
(* The PPU as the bus uses it (ppu_emu/ppu.rs, not among the sources;      *)
(* section 6 of the specification).  dots counts the dots the PPU was      *)
(* advanced by; until_vblank is its position: the number of advances from  *)
(* now that takes it into vertical blank (0: none in sight).  Video memory *)
(* is not modelled: PPUDATA reads give 0.                                  *)
(***************************************************************************)
NewPPU ==
    [dots          |-> 0,
     until_vblank  |-> 0,
     vblanks       |-> 0,
     nmi_interrupt |-> FALSE,
     ctrl          |-> 0,
     status        |-> 0,
     oam_addr      |-> 0,
     oam_data      |-> NoCells]

\* ctrl.generate_vblank_nmi()
generate_vblank_nmi(ppu) == ppu.ctrl >= 128

\* NesPPU::tick(dots): advance, and on entering vertical blank set the
\* status flag and, when enabled, latch the NMI
ppu_tick(ppu, dots) ==
    LET moved == [ppu EXCEPT !.dots = @ + dots]
    IN  IF dots = 0 \/ ppu.until_vblank = 0 THEN moved
        ELSE IF ppu.until_vblank > 1
            THEN [moved EXCEPT !.until_vblank = @ - 1]
        ELSE [moved EXCEPT
                !.until_vblank  = 0,
                !.vblanks       = @ + 1,
                !.status        = BitOr(@, \h80),
                !.nmi_interrupt = @ \/ generate_vblank_nmi(ppu)]

\* NesPPU::poll_nmi_interrupt(): Option::take of the latch
ppu_poll_nmi_interrupt(ppu) ==
    [val |-> ppu.nmi_interrupt, ppu |-> [ppu EXCEPT !.nmi_interrupt = FALSE]]

\* NesPPU::read_status(): the status byte; clears the vblank flag
ppu_read_status(ppu) ==
    [val |-> ppu.status, ppu |-> [ppu EXCEPT !.status = BitAnd(@, \h7F)]]

\* NesPPU::read_oam_data()
ppu_read_oam_data(ppu) == CellAt(ppu.oam_data, ppu.oam_addr, 0)

\* NesPPU::write_to_oam_data(value): store, then step the OAM address
ppu_write_to_oam_data(ppu, value) ==
    [ppu EXCEPT !.oam_data = CellPut(@, ppu.oam_addr, value, 0),
                !.oam_addr = WrapAdd8(@, 1)]

\* NesPPU::write_oam_dma(&buffer): buffer[i] goes to OAM at oam_addr + i,
\* the address wrapping, for i = 0..255; oam_addr ends where it began
ppu_write_oam_dma(ppu, buffer) ==
    LET at_cell(j) == CellAt(buffer, (j + 256 - ppu.oam_addr) % 256, 0)
    IN  [ppu EXCEPT
           !.oam_data = [j \in {i \in 0 .. 255 : at_cell(i) # 0} |->
                            at_cell(j)]]

(***************************************************************************)
(* The controller (joypad.rs, not among the sources; section 4.4 of the    *)
(* specification).                                                         *)
(***************************************************************************)
NewJoypad == [strobe |-> FALSE, button_index |-> 0, button_status |-> 0]

\* Joypad::write(data)
joypad_write(joy, data) ==
    LET strobe == data % 2 = 1
    IN  [joy EXCEPT !.strobe = strobe,
                    !.button_index = IF strobe THEN 0 ELSE @]

\* Joypad::read()
joypad_read(joy) ==
    IF joy.button_index > 7 THEN [val |-> 1, joy |-> joy]
    ELSE [val |-> (joy.button_status \div (2 ^ joy.button_index)) % 2,
          joy |-> IF joy.strobe THEN joy
                  ELSE [joy EXCEPT !.button_index = @ + 1]]

(***************************************************************************)
(* The cartridge's PRG-ROM (emu/cartridge.rs is not among the sources): a  *)
(* Vec<u8> of 16 KiB or 32 KiB.  The images the model runs: each holds the *)
(* NMI and reset vectors, a main program that enables the vblank NMI and   *)
(* then spins, and an NMI handler.                                         *)
(***************************************************************************)
Rom32K ==
    [len   |-> \h8000,
     fill  |-> \h00,
     bytes |-> (\h0000 :> \hA9 @@ \h0001 :> \h80 @@          \* 8000 LDA #$80
                \h0002 :> \h8D @@ \h0003 :> \h00 @@ \h0004 :> \h20 @@
                                                             \* 8002 STA $2000
                \h0005 :> \h4C @@ \h0006 :> \h05 @@ \h0007 :> \h80 @@
                                                             \* 8005 JMP $8005
                \h1000 :> \h40 @@                            \* 9000 RTI
                \h4000 :> \h32 @@                            \* C000 data
                \h7FFA :> \h00 @@ \h7FFB :> \h90 @@          \* NMI   -> 9000
                \h7FFC :> \h00 @@ \h7FFD :> \h80)]           \* reset -> 8000

Rom16K ==
    [len   |-> \h4000,
     fill  |-> \h00,
     bytes |-> (\h0000 :> \h78 @@                            \* C000 SEI
                \h0001 :> \hA9 @@ \h0002 :> \h80 @@          \* C001 LDA #$80
                \h0003 :> \h8D @@ \h0004 :> \h00 @@ \h0005 :> \h20 @@
                                                             \* C003 STA $2000
                \h0006 :> \hD0 @@ \h0007 :> \hFE @@          \* C006 BNE $C006
                \h0010 :> \hE8 @@ \h0011 :> \h40 @@          \* C010 INX, RTI
                \h3FFA :> \h10 @@ \h3FFB :> \hC0 @@          \* NMI   -> C010
                \h3FFC :> \h00 @@ \h3FFD :> \hC0)]           \* reset -> C000

Roms == {Rom16K, Rom32K}

\* the cartridge of a harness that loads its program into RAM
HarnessRom == Rom32K

(***************************************************************************)
(* emu/bus.rs                                                              *)
(***************************************************************************)
RAM == \h0000
RAM_MIRRORS_END == \h1FFF
PPU_REGISTERS_MIRRORS_END == \h3FFF

\* an arithmetic result of an unsigned type that holds the values below
\* limit: a build with overflow checks (the dev profile) panics when it does
\* not fit, a build without them (the release profile) wraps
Checked(m, result, limit) ==
    IF result >= limit /\ m.overflow_checks
        THEN Panic(m, "arithmetic overflow")
        ELSE m

\* what the CPU has made of its registers and of RAM so far
CpuSide(m) ==
    [register_a      |-> m.register_a,
     register_x      |-> m.register_x,
     register_y      |-> m.register_y,
     status          |-> m.status,
     stack_pointer   |-> m.stack_pointer,
     program_counter |-> m.program_counter,
     cpu_vram        |-> m.cpu_vram]

\* (self.gameloop_callback)(&self.ppu, &mut self.joypad1)
gameloop_callback(m) ==
    Log([m EXCEPT !.frames = @ + 1], <<"gameloop_callback">>)

\* tick with the callback fired whenever the latch is set after the advance
tick_callback_while_pending(m, cycles) ==
    LET advance(nmi_before, advanced) ==
            Log(advanced, <<"tick", cycles, nmi_before,
                            advanced.ppu.nmi_interrupt>>)
        edge(nmi_before, advanced) ==
            IF advanced.ppu.nmi_interrupt
                THEN gameloop_callback(advance(nmi_before, advanced))
                ELSE advance(nmi_before, advanced)
        count(counted) ==
            IF Panicked(Checked(counted, cycles * 3, 256))
                THEN Checked(counted, cycles * 3, 256)
                ELSE edge(counted.ppu.nmi_interrupt,
                          [counted EXCEPT
                             !.ppu = ppu_tick(@, (cycles * 3) % 256)])
    IN  IF Panicked(m) THEN m
        ELSE count([m EXCEPT !.cycles = @ + cycles])

\* tick with a cycle counter that restarts at the frame: 0 when the latch
\* has just been set
tick_restarting_at_frame(m, cycles) ==
    LET advance(nmi_before, advanced) ==
            Log(advanced, <<"tick", cycles, nmi_before,
                            advanced.ppu.nmi_interrupt>>)
        edge(nmi_before, advanced) ==
            IF ~nmi_before /\ advanced.ppu.nmi_interrupt
                THEN gameloop_callback(
                         advance(nmi_before, [advanced EXCEPT !.cycles = 0]))
                ELSE advance(nmi_before, advanced)
        count(counted) ==
            IF Panicked(Checked(counted, cycles * 3, 256))
                THEN Checked(counted, cycles * 3, 256)
                ELSE edge(counted.ppu.nmi_interrupt,
                          [counted EXCEPT
                             !.ppu = ppu_tick(@, (cycles * 3) % 256)])
    IN  IF Panicked(m) THEN m
        ELSE count([m EXCEPT !.cycles = @ + cycles])

\* Bus::tick.  The record of a completed call is <<"tick", cycles, the latch
\* before the PPU advance, the latch after it, the CPU's registers and RAM
\* as they are during the call>>.
tick(m, cycles) ==
    LET advance(nmi_before, advanced) ==
            Log(advanced, <<"tick", cycles, nmi_before,
                            advanced.ppu.nmi_interrupt, CpuSide(advanced)>>)
        edge(nmi_before, advanced) ==
            IF ~nmi_before /\ advanced.ppu.nmi_interrupt
                THEN gameloop_callback(advance(nmi_before, advanced))
                ELSE advance(nmi_before, advanced)
        count(counted) ==
            \* `cycles * 3` is a u8 product
            IF Panicked(Checked(counted, cycles * 3, 256))
                THEN Checked(counted, cycles * 3, 256)
                ELSE edge(counted.ppu.nmi_interrupt,
                          [counted EXCEPT
                             !.ppu = ppu_tick(@, (cycles * 3) % 256)])
    IN  IF Panicked(m) THEN m
        ELSE count([m EXCEPT !.cycles = @ + cycles])

\* a read of the cartridge that does not mirror a 16 KiB image
read_prg_rom_unmirrored(m, addr) ==
    LET idx == addr - \h8000
    IN  IF idx >= m.rom.len
            THEN [val |-> 0, st |-> Panic(m, "index out of bounds")]
            ELSE [val |-> CellAt(m.rom.bytes, idx, m.rom.fill), st |-> m]

\* Bus::read_prg_rom
read_prg_rom(m, addr) ==
    LET off == addr - \h8000
        idx == IF m.rom.len = \h4000 /\ off >= \h4000 THEN off % \h4000
               ELSE off
    IN  IF idx >= m.rom.len
            THEN [val |-> 0, st |-> Panic(m, "index out of bounds")]
            ELSE [val |-> CellAt(m.rom.bytes, idx, m.rom.fill), st |-> m]

\* Bus::poll_nmi_status
poll_nmi_status(m) ==
    LET polled == ppu_poll_nmi_interrupt(m.ppu)
    IN  [val |-> polled.val, st |-> [m EXCEPT !.ppu = polled.ppu]]

\* mem_read that answers 0x4016 as it answers 0x4017, with 0
mem_read_joypad_ignored(m, addr) ==
    IF addr \in RAM..RAM_MIRRORS_END
        THEN [val |-> CellAt(m.cpu_vram, BitAnd(addr, \h07FF), 0), st |-> m]
        ELSE [val |-> 0, st |-> m]

\* mem_read with the RAM mask one bit too wide, 0x0fff
mem_read_wide_mask(m, addr) ==
    IF addr \in RAM..RAM_MIRRORS_END
        THEN [val |-> CellAt(m.cpu_vram, BitAnd(addr, \h0FFF), 0), st |-> m]
        ELSE [val |-> 0, st |-> m]

\* Bus::mem_read
RECURSIVE mem_read(_, _)
mem_read(m, addr) ==
    IF Panicked(m) THEN [val |-> 0, st |-> m]
    ELSE IF addr \in RAM..RAM_MIRRORS_END THEN
        LET mirror_down_addr == BitAnd(addr, \h07FF)
        IN  [val |-> CellAt(m.cpu_vram, mirror_down_addr, 0), st |-> m]
    ELSE IF addr \in {\h2000, \h2001, \h2003, \h2005, \h2006, \h4014} THEN
        [val |-> 0, st |-> m]
    ELSE IF addr = \h2002 THEN
        LET r == ppu_read_status(m.ppu)
        IN  [val |-> r.val, st |-> [m EXCEPT !.ppu = r.ppu]]
    ELSE IF addr = \h2004 THEN
        [val |-> ppu_read_oam_data(m.ppu), st |-> m]
    ELSE IF addr = \h2007 THEN
        [val |-> 0, st |-> m]
    ELSE IF addr \in \h4000..\h4015 THEN
        [val |-> 0, st |-> m]
    ELSE IF addr = \h4016 THEN
        LET r == joypad_read(m.joypad1)
        IN  [val |-> r.val, st |-> [m EXCEPT !.joypad1 = r.joy]]
    ELSE IF addr = \h4017 THEN
        [val |-> 0, st |-> m]
    ELSE IF addr \in \h2008..PPU_REGISTERS_MIRRORS_END THEN
        LET mirror_down_addr == BitAnd(addr, \h2007)
        IN  mem_read(m, mirror_down_addr)
    ELSE IF addr \in \h8000..\hFFFF THEN
        read_prg_rom(m, addr)
    ELSE
        [val |-> 0, st |-> m]

\* the reads of the DMA one address ahead: buffer[i] = mem_read(hi + i + 1)
dma_read_one_ahead(m, hi, from, n, buffer) ==
    LET ahead(i) == mem_read(m, hi + ((i + 1) % 256)).val
    IN  [val |-> [i \in {j \in 0 .. 255 : ahead(j) # 0} |-> ahead(i)],
         st  |-> m]

\* Bus::mem_write, 0x4014: buffer[i] = self.mem_read(hi + i) for i in 0..256;
\* the reads i = from .. from + n - 1, in order, halving the range
RECURSIVE dma_read(_, _, _, _, _)
dma_read(m, hi, from, n, buffer) ==
    LET store(r) == [val |-> CellPut(buffer, from, r.val, 0), st |-> r.st]
        rest(r)  ==
            IF Panicked(r.st) THEN r
            ELSE dma_read(r.st, hi, from + n \div 2, n - n \div 2, r.val)
    IN  IF n = 1 THEN store(mem_read(m, hi + from))
        ELSE rest(dma_read(m, hi, from, n \div 2, buffer))

\* mem_write that stores into the PRG-ROM instead of aborting
mem_write_through_to_rom(m, addr, data) ==
    IF addr \in RAM..RAM_MIRRORS_END
        THEN [m EXCEPT !.cpu_vram = CellPut(@, BitAnd(addr, \h07FF), data, 0)]
    ELSE IF addr \in \h8000..\hFFFF
        THEN [m EXCEPT !.rom.bytes = CellPut(@, (addr - \h8000) % m.rom.len,
                                            data, m.rom.fill)]
    ELSE m

\* mem_write with the RAM mask one bit too wide, 0x0fff
mem_write_wide_mask(m, addr, data) ==
    IF addr \in RAM..RAM_MIRRORS_END
        THEN [m EXCEPT !.cpu_vram = CellPut(@, BitAnd(addr, \h0FFF), data, 0)]
        ELSE m

\* Bus::mem_write
RECURSIVE mem_write(_, _, _)
mem_write(m, addr, data) ==
    IF Panicked(m) THEN m
    ELSE IF addr \in RAM..RAM_MIRRORS_END THEN
        LET mirror_down_addr == BitAnd(addr, \h07FF)
        IN  [m EXCEPT !.cpu_vram = CellPut(@, mirror_down_addr, data, 0)]
    ELSE IF addr = \h2000 THEN [m EXCEPT !.ppu.ctrl = data]
    ELSE IF addr = \h2001 THEN m
    ELSE IF addr = \h2002 THEN
        Panic(m, "attempt to write to PPU status register")
    ELSE IF addr = \h2003 THEN [m EXCEPT !.ppu.oam_addr = data]
    ELSE IF addr = \h2004 THEN
        [m EXCEPT !.ppu = ppu_write_to_oam_data(@, data)]
    ELSE IF addr \in {\h2005, \h2006, \h2007} THEN m
    ELSE IF addr \in \h4000..\h4013 \/ addr = \h4015 THEN m
    ELSE IF addr = \h4016 THEN
        [m EXCEPT !.joypad1 = joypad_write(@, data)]
    ELSE IF addr = \h4017 THEN m
    ELSE IF addr = \h4014 THEN
        LET hi == data * 256
            write_oam_dma(r) ==
                IF Panicked(r.st) THEN r.st
                ELSE [r.st EXCEPT !.ppu = ppu_write_oam_dma(@, r.val)]
        IN  write_oam_dma(dma_read(m, hi, 0, 256, NoCells))
    ELSE IF addr \in \h2008..PPU_REGISTERS_MIRRORS_END THEN
        LET mirror_down_addr == BitAnd(addr, \h2007)
        IN  mem_write(m, mirror_down_addr, data)
    ELSE IF addr \in \h8000..\hFFFF THEN
        Panic(m, "Attempt to write to Cartridge ROM space")
    ELSE m

\* Mem::mem_read_u16 (cpu.rs), which the bus inherits
mem_read_u16(m, pos) ==
    LET u16(lo, hi) == [val |-> BitOr(hi.val * 256, lo.val), st |-> hi.st]
        high(lo) ==
            u16(lo, mem_read(Checked(lo.st, pos + 1, 65536),
                             (pos + 1) % 65536))
    IN  high(mem_read(m, pos))

(***************************************************************************)
(* emu/cpu.rs: registers, addressing modes, stack                          *)
(***************************************************************************)
\* an assignment to a CPU field
SetA(m, v)  == IF Panicked(m) THEN m ELSE [m EXCEPT !.register_a = v]
SetX(m, v)  == IF Panicked(m) THEN m ELSE [m EXCEPT !.register_x = v]
SetY(m, v)  == IF Panicked(m) THEN m ELSE [m EXCEPT !.register_y = v]
SetP(m, v)  == IF Panicked(m) THEN m ELSE [m EXCEPT !.status = v]
SetSP(m, v) == IF Panicked(m) THEN m ELSE [m EXCEPT !.stack_pointer = v]
SetPC(m, v) == IF Panicked(m) THEN m ELSE [m EXCEPT !.program_counter = v]

\* CPU::page_cross
page_cross(addr1, addr2) == BitAnd(addr1, \hFF00) # BitAnd(addr2, \hFF00)

\* CPU::get_absolute_address: [val: the address, page_cross, st]
get_absolute_address(m, mode, addr) ==
    LET plain(r) == [val |-> r.val, page_cross |-> FALSE, st |-> r.st]
        zero_page(pos, index) ==
            [val |-> WrapAdd8(pos.val, index), page_cross |-> FALSE,
             st |-> pos.st]
        absolute(base, index) ==
            [val |-> WrapAdd16(base.val, index),
             page_cross |-> page_cross(base.val, WrapAdd16(base.val, index)),
             st |-> base.st]
        u16(lo, hi) == [val |-> BitOr(hi.val * 256, lo.val), st |-> hi.st]
        read_hi(lo, ptr) == u16(lo, mem_read(lo.st, WrapAdd8(ptr, 1)))
        \* lo = mem_read(ptr), hi = mem_read(ptr.wrapping_add(1))
        zero_page_u16(st, ptr) == read_hi(mem_read(st, ptr), ptr)
        indirect_x(base) ==
            plain(zero_page_u16(base.st, WrapAdd8(base.val, m.register_x)))
        add_y(deref_base) ==
            [val |-> WrapAdd16(deref_base.val, m.register_y),
             page_cross |-> page_cross(
                 WrapAdd16(deref_base.val, m.register_y), deref_base.val),
             st |-> deref_base.st]
        indirect_y(base) == add_y(zero_page_u16(base.st, base.val))
    IN  CASE mode = Zp  -> plain(mem_read(m, addr))
          [] mode = Abs -> plain(mem_read_u16(m, addr))
          [] mode = ZpX -> zero_page(mem_read(m, addr), m.register_x)
          [] mode = ZpY -> zero_page(mem_read(m, addr), m.register_y)
          [] mode = AbX -> absolute(mem_read_u16(m, addr), m.register_x)
          [] mode = AbY -> absolute(mem_read_u16(m, addr), m.register_y)
          [] mode = InX -> indirect_x(mem_read(m, addr))
          [] mode = InY -> indirect_y(mem_read(m, addr))
          [] OTHER ->
               [val |-> 0, page_cross |-> FALSE,
                st |-> Panic(m, "mode is not supported")]

\* CPU::get_operand_address
get_operand_address(m, mode) ==
    IF mode = Imm
        THEN [val |-> m.program_counter, page_cross |-> FALSE, st |-> m]
        ELSE get_absolute_address(m, mode, m.program_counter)

\* CPU::update_zero_and_negative_flags
update_zero_and_negative_flags(m, result) ==
    LET z == IF result = 0 THEN BitOr(m.status, \h02)
             ELSE BitAnd(m.status, \hFD)
        n == IF BitAnd(result, \h80) # 0 THEN BitOr(z, \h80)
             ELSE BitAnd(z, \h7F)
    IN  SetP(m, n)

\* CPU::set_register_a
set_register_a(m, value) ==
    update_zero_and_negative_flags(SetA(m, value), value)

\* CPU::set_carry_flag, CPU::clear_carry_flag
set_carry_flag(m) == SetP(m, BitOr(m.status, \h01))
clear_carry_flag(m) == SetP(m, BitAnd(m.status, \hFE))

\* `if cond { self.set_carry_flag() } else { self.clear_carry_flag() }`
carry_if(m, cond) == IF cond THEN set_carry_flag(m) ELSE clear_carry_flag(m)

\* `if page_cross { self.bus.tick(1) }`
tick_if(m, cond) == IF cond THEN tick(m, 1) ELSE m

\* CPU::stack_pop
stack_pop(m) ==
    LET sp == WrapAdd8(m.stack_pointer, 1)
    IN  mem_read(SetSP(m, sp), \h0100 + sp)

\* CPU::stack_push
stack_push(m, data) ==
    LET written == mem_write(m, \h0100 + m.stack_pointer, data)
    IN  SetSP(written, WrapSub8(m.stack_pointer, 1))

\* CPU::stack_pop_u16
stack_pop_u16(m) ==
    LET u16(lo, hi) == [val |-> BitOr(hi.val * 256, lo.val), st |-> hi.st]
        pop_hi(lo) == u16(lo, stack_pop(lo.st))
    IN  pop_hi(stack_pop(m))

\* CPU::stack_push_u16
stack_push_u16(m, data) ==
    LET hi == data \div 256
        lo == BitAnd(data, \hFF)
    IN  stack_push(stack_push(m, hi), lo)

(***************************************************************************)
(* emu/cpu.rs: instruction handlers                                        *)
(***************************************************************************)
\* the operand fetch that opens most handlers:
\*   let (addr, page_cross) = self.get_operand_address(mode);
\*   let data = self.mem_read(addr);
\* [addr, page_cross, val: the byte read, st]
read_operand(m, mode) ==
    LET operand(o, r) ==
            [addr |-> o.val, page_cross |-> o.page_cross, val |-> r.val,
             st |-> r.st]
        read(o) == operand(o, mem_read(o.st, o.val))
    IN  read(get_operand_address(m, mode))

\* CPU::lda
lda(m, mode) ==
    LET load(o) == tick_if(set_register_a(o.st, o.val), o.page_cross)
    IN  load(read_operand(m, mode))

\* ldx without its call of update_zero_and_negative_flags
ldx_without_flags(m, mode) ==
    LET load(o) == tick_if(SetX(o.st, o.val), o.page_cross)
    IN  load(read_operand(m, mode))

\* CPU::ldx
ldx(m, mode) ==
    LET load(o) ==
            tick_if(update_zero_and_negative_flags(SetX(o.st, o.val), o.val),
                    o.page_cross)
    IN  load(read_operand(m, mode))

\* CPU::ldy
ldy(m, mode) ==
    LET load(o) ==
            tick_if(update_zero_and_negative_flags(SetY(o.st, o.val), o.val),
                    o.page_cross)
    IN  load(read_operand(m, mode))

\* sta that pays for a page crossing as the loads do
sta_charging_page_cross(m, mode) ==
    LET write(o) ==
            tick_if(mem_write(o.st, o.val, m.register_a), o.page_cross)
    IN  write(get_operand_address(m, mode))

\* CPU::sta, and the STX, STY and SAX arms, which store another value
store(m, mode, value) ==
    LET write(o) == mem_write(o.st, o.val, value)
    IN  write(get_operand_address(m, mode))

sta(m, mode) == store(m, mode, m.register_a)

\* CPU::and
and(m, mode) ==
    LET combine(o) ==
            tick_if(set_register_a(o.st, BitAnd(o.val, m.register_a)),
                    o.page_cross)
    IN  combine(read_operand(m, mode))

\* CPU::eor
eor(m, mode) ==
    LET combine(o) ==
            tick_if(set_register_a(o.st, BitXor(o.val, m.register_a)),
                    o.page_cross)
    IN  combine(read_operand(m, mode))

\* CPU::ora
ora(m, mode) ==
    LET combine(o) ==
            tick_if(set_register_a(o.st, BitOr(o.val, m.register_a)),
                    o.page_cross)
    IN  combine(read_operand(m, mode))

\* tax that reads the stack pointer, as the TSX arm does
tax_from_stack_pointer(m) ==
    update_zero_and_negative_flags(SetX(m, m.stack_pointer), m.stack_pointer)

\* CPU::tax
tax(m) ==
    update_zero_and_negative_flags(SetX(m, m.register_a), m.register_a)

\* the end of a handler that rewrites its operand: the byte goes to addr,
\* Z and N follow `flags`, and the handler returns `val`
write_back(m, addr, data, flags, val) ==
    [val |-> val,
     st  |-> update_zero_and_negative_flags(mem_write(m, addr, data), flags)]

\* CPU::inc, CPU::dec: [val: the new byte, st]
inc(m, mode) ==
    LET step(o) ==
            write_back(o.st, o.addr, WrapAdd8(o.val, 1), WrapAdd8(o.val, 1),
                       WrapAdd8(o.val, 1))
    IN  step(read_operand(m, mode))

\* dec with Z and N taken from the operand as it was read
dec_flags_from_operand(m, mode) ==
    LET step(o) ==
            write_back(o.st, o.addr, WrapSub8(o.val, 1), o.val,
                       WrapSub8(o.val, 1))
    IN  step(read_operand(m, mode))

dec(m, mode) ==
    LET step(o) ==
            write_back(o.st, o.addr, WrapSub8(o.val, 1), WrapSub8(o.val, 1),
                       WrapSub8(o.val, 1))
    IN  step(read_operand(m, mode))

\* CPU::inx, CPU::iny, CPU::dex, CPU::dey
inx(m) ==
    LET v == WrapAdd8(m.register_x, 1)
    IN  update_zero_and_negative_flags(SetX(m, v), v)

iny(m) ==
    LET v == WrapAdd8(m.register_y, 1)
    IN  update_zero_and_negative_flags(SetY(m, v), v)

dex(m) ==
    LET v == WrapSub8(m.register_x, 1)
    IN  update_zero_and_negative_flags(SetX(m, v), v)

dey(m) ==
    LET v == WrapSub8(m.register_y, 1)
    IN  update_zero_and_negative_flags(SetY(m, v), v)

\* the sum that adc, sbc, unofficial_isb and unofficial_rra share: A + b + C,
\* C from the sum, V from the signs, the result into A with Z and N
add_to_register_a(m, b) ==
    LET a      == m.register_a
        c      == BitAnd(m.status, \h01)
        sum    == a + b + c
        m1     == carry_if(m, sum > \hFF)
        result == sum % 256
        v      == BitAnd(BitAnd(BitXor(b, result), BitXor(result, a)), \h80)
        m2     == SetP(m1, IF v # 0 THEN BitOr(m1.status, \h40)
                           ELSE BitAnd(m1.status, \hBF))
    IN  set_register_a(m2, result)

\* `(data as i8).wrapping_neg().wrapping_sub(1) as u8`
neg_minus_one(data) == WrapSub8(WrapSub8(0, data), 1)

\* adc that leaves the carry out of the sum
adc_without_carry_in(m, mode) ==
    LET add(o) ==
            tick_if(add_to_register_a(clear_carry_flag(o.st), o.val),
                    o.page_cross)
    IN  add(read_operand(m, mode))

\* CPU::adc
adc(m, mode) ==
    LET add(o) == tick_if(add_to_register_a(o.st, o.val), o.page_cross)
    IN  add(read_operand(m, mode))

\* sbc that adds the two's complement of the operand, without the `- 1`
sbc_of_negated_operand(m, mode) ==
    LET add(o) ==
            tick_if(add_to_register_a(o.st, WrapSub8(0, o.val)),
                    o.page_cross)
    IN  add(read_operand(m, mode))

\* CPU::sbc
sbc(m, mode) ==
    LET add(o) ==
            tick_if(add_to_register_a(o.st, neg_minus_one(o.val)),
                    o.page_cross)
    IN  add(read_operand(m, mode))

\* CPU::pla
pla(m) ==
    LET pulled(r) == set_register_a(r.st, r.val)
    IN  pulled(stack_pop(m))

\* plp without its last statement, `self.status | 0b0010_0000`
plp_as_pulled(m) ==
    LET pulled(r) == SetP(r.st, BitAnd(r.val, \hEF))
    IN  pulled(stack_pop(m))

\* plp without its second statement, `self.status & 0b1110_1111`
plp_keeping_break(m) ==
    LET pulled(r) == SetP(r.st, BitOr(r.val, \h20))
    IN  pulled(stack_pop(m))

\* CPU::plp, and the first three statements of the RTI arm
plp(m) ==
    LET pulled(r) == SetP(r.st, BitOr(BitAnd(r.val, \hEF), \h20))
    IN  pulled(stack_pop(m))

\* CPU::php
php(m) == stack_push(m, BitOr(m.status, \h30))

\* CPU::bit
bit(m, mode) ==
    LET test(o) ==
            LET m0 == o.st
                m1 == SetP(m0, IF BitAnd(o.val, \h40) \div 64 = 1
                               THEN BitOr(m0.status, \h40)
                               ELSE BitAnd(m0.status, \hBF))
                m2 == SetP(m1, IF o.val \div 128 = 1
                               THEN BitOr(m1.status, \h80)
                               ELSE BitAnd(m1.status, \h7F))
            IN  SetP(m2, IF BitAnd(m.register_a, o.val) = 0
                         THEN BitOr(m2.status, \h02)
                         ELSE BitAnd(m2.status, \hFD))
    IN  test(read_operand(m, mode))

\* CPU::compare
compare(m, mode, compare_with) ==
    LET flags(o) ==
            tick_if(update_zero_and_negative_flags(
                        carry_if(o.st, o.val <= compare_with),
                        WrapSub8(compare_with, o.val)),
                    o.page_cross)
    IN  flags(read_operand(m, mode))

\* branch that compares the target's page with the page of the operand
branch_page_of_operand(m, condition) ==
    LET next(pc) == WrapAdd16(pc, 1)
        jump_addr(pc, jump) == WrapAdd16(next(pc), SignExtend(jump))
        take(jump) ==
            SetPC(tick_if(jump.st,
                          BitAnd(m.program_counter, \hFF00)
                              # BitAnd(jump_addr(m.program_counter, jump.val),
                                       \hFF00)),
                  jump_addr(m.program_counter, jump.val))
    IN  IF ~condition THEN m
        ELSE take(mem_read(tick(m, 1), m.program_counter))

\* CPU::branch
branch(m, condition) ==
    LET next(pc) == WrapAdd16(pc, 1)
        jump_addr(pc, jump) == WrapAdd16(next(pc), SignExtend(jump))
        take(jump) ==
            SetPC(tick_if(jump.st,
                          BitAnd(next(m.program_counter), \hFF00)
                              # BitAnd(jump_addr(m.program_counter, jump.val),
                                       \hFF00)),
                  jump_addr(m.program_counter, jump.val))
    IN  IF ~condition THEN m
        ELSE take(mem_read(tick(m, 1), m.program_counter))

\* CPU::asl_accumulator, CPU::lsr_accumulator
asl_accumulator(m) ==
    LET data == m.register_a
    IN  set_register_a(carry_if(m, data \div 128 = 1), Shl8(data))

lsr_accumulator(m) ==
    LET data == m.register_a
    IN  set_register_a(carry_if(m, data % 2 = 1), Shr8(data))

\* CPU::asl, CPU::lsr: [val: the byte the handler returns, st]
asl(m, mode) ==
    LET shift(o) ==
            write_back(carry_if(o.st, o.val \div 128 = 1), o.addr,
                       Shl8(o.val), o.val, o.val)
    IN  shift(read_operand(m, mode))

lsr(m, mode) ==
    LET shift(o) ==
            write_back(carry_if(o.st, o.val % 2 = 1), o.addr,
                       Shr8(o.val), o.val, o.val)
    IN  shift(read_operand(m, mode))

\* the rotation of rol and rol_accumulator, of ror and ror_accumulator
rol_value(data, old_carry) ==
    IF old_carry THEN BitOr(Shl8(data), \h01) ELSE Shl8(data)

ror_value(data, old_carry) ==
    IF old_carry THEN BitOr(Shr8(data), \h80) ELSE Shr8(data)

\* CPU::rol, CPU::ror: [val: the rotated byte, st]
rol(m, mode) ==
    LET old_carry == BitAnd(m.status, \h01) = 1
        rotate(o) ==
            write_back(carry_if(o.st, o.val \div 128 = 1), o.addr,
                       rol_value(o.val, old_carry),
                       rol_value(o.val, old_carry),
                       rol_value(o.val, old_carry))
    IN  rotate(read_operand(m, mode))

ror(m, mode) ==
    LET old_carry == BitAnd(m.status, \h01) = 1
        rotate(o) ==
            write_back(carry_if(o.st, o.val % 2 = 1), o.addr,
                       ror_value(o.val, old_carry),
                       ror_value(o.val, old_carry),
                       ror_value(o.val, old_carry))
    IN  rotate(read_operand(m, mode))

\* CPU::rol_accumulator, CPU::ror_accumulator
rol_accumulator(m) ==
    LET data      == m.register_a
        old_carry == BitAnd(m.status, \h01) = 1
    IN  set_register_a(carry_if(m, data \div 128 = 1),
                       rol_value(data, old_carry))

ror_accumulator(m) ==
    LET data      == m.register_a
        old_carry == BitAnd(m.status, \h01) = 1
    IN  set_register_a(carry_if(m, data % 2 = 1),
                       ror_value(data, old_carry))

\* CPU::unofficial_isb
unofficial_isb(m, mode) ==
    LET subtract(r) == add_to_register_a(r.st, neg_minus_one(r.val))
    IN  subtract(inc(m, mode))

\* CPU::unofficial_slo
unofficial_slo(m, mode) ==
    LET combine(r) == set_register_a(r.st, BitOr(r.val, m.register_a))
    IN  combine(asl(m, mode))

\* CPU::unofficial_rla
unofficial_rla(m, mode) ==
    LET combine(r) == set_register_a(r.st, BitAnd(r.val, m.register_a))
    IN  combine(rol(m, mode))

\* CPU::unofficial_sre
unofficial_sre(m, mode) ==
    LET combine(r) == set_register_a(r.st, BitXor(r.val, m.register_a))
    IN  combine(lsr(m, mode))

\* CPU::unofficial_rra
unofficial_rra(m, mode) ==
    LET add(r) == add_to_register_a(r.st, r.val)
    IN  add(ror(m, mode))

(***************************************************************************)
(* emu/cpu.rs: the arms of run_with_callback that have no method           *)
(***************************************************************************)
\* `self.program_counter = <a u16 read>`
jump_to(r) == SetPC(r.st, r.val)

\* JMP Absolute
jmp_absolute(m) == jump_to(mem_read_u16(m, m.program_counter))

\* JMP Indirect
jmp_indirect(m) ==
    LET u16(lo, hi) == [val |-> BitOr(hi.val * 256, lo.val), st |-> hi.st]
        read_hi(lo, addr) == u16(lo, mem_read(lo.st, addr))
        indirect(mem_addr) ==
            IF BitAnd(mem_addr.val, \h00FF) = \h00FF
                THEN jump_to(read_hi(mem_read(mem_addr.st, mem_addr.val),
                                     BitAnd(mem_addr.val, \hFF00)))
                ELSE jump_to(mem_read_u16(mem_addr.st, mem_addr.val))
    IN  indirect(mem_read_u16(m, m.program_counter))

\* JSR
jsr(m) ==
    jump_to(mem_read_u16(
        stack_push_u16(Checked(m, m.program_counter + 2, 65536),
                       (m.program_counter + 2 - 1) % 65536),
        m.program_counter))

\* RTS
rts(m) ==
    LET return(r) ==
            SetPC(Checked(r.st, r.val + 1, 65536), (r.val + 1) % 65536)
    IN  return(stack_pop_u16(m))

\* RTI
rti(m) == jump_to(stack_pop_u16(plp(m)))

\* the unofficial NOPs that read their operand
nop_read(m, mode) ==
    LET skip(o) == tick_if(o.st, o.page_cross)
    IN  skip(get_operand_address(m, mode))

\* LAX
lax(m, mode) ==
    LET load(o) ==
            SetX(update_zero_and_negative_flags(SetA(o.st, o.val), o.val),
                 o.val)
    IN  load(read_operand(m, mode))

\* DCP
dcp(m, mode) ==
    LET flags(m1, data) ==
            update_zero_and_negative_flags(
                IF data <= m1.register_a
                    THEN SetP(m1, BitOr(m1.status, \h00000001))
                    ELSE m1,
                WrapSub8(m1.register_a, data))
        step(o) ==
            flags(mem_write(o.st, o.addr, WrapAdd8(o.val, 1)),
                  WrapAdd8(o.val, 1))
    IN  step(read_operand(m, mode))

\* AXS
axs(m, mode) ==
    LET x_and_a == BitAnd(m.register_x, m.register_a)
        subtract(o) ==
            SetX(update_zero_and_negative_flags(
                     IF o.val <= x_and_a
                         THEN SetP(o.st, BitOr(o.st.status, \h01))
                         ELSE o.st,
                     WrapSub8(x_and_a, o.val)),
                 WrapSub8(x_and_a, o.val))
    IN  subtract(read_operand(m, mode))

\* `self.register_a = data & self.register_a` with Z and N, which opens the
\* ARR, ANC and ALR arms
and_register_a(o) ==
    update_zero_and_negative_flags(
        SetA(o.st, BitAnd(o.val, o.st.register_a)),
        BitAnd(o.val, o.st.register_a))

\* ARR
arr(m, mode) ==
    LET flags(m2) ==
            LET result == m2.register_a
                bit_5  == (result \div 32) % 2
                bit_6  == (result \div 64) % 2
                m3     == carry_if(m2, bit_6 = 1)
                m4     == SetP(m3, IF BitXor(bit_5, bit_6) = 1
                                   THEN BitOr(m3.status, \h40)
                                   ELSE BitAnd(m3.status, \hBF))
            IN  update_zero_and_negative_flags(m4, result)
    IN  flags(ror_accumulator(and_register_a(read_operand(m, mode))))

\* ANC
anc(m, mode) ==
    LET carry(m1) == carry_if(m1, m1.status = \h80)
    IN  carry(and_register_a(read_operand(m, mode)))

\* ALR
alr(m, mode) == lsr_accumulator(and_register_a(read_operand(m, mode)))

\* LXA
lxa(m, mode) == tax(lda(m, mode))

\* XAA
xaa(m, mode) ==
    and_register_a(read_operand(
        update_zero_and_negative_flags(SetA(m, m.register_x), m.register_x),
        mode))

\* `base + index as u16`, a checked u16 sum: [val, st]
add_index(base, index) ==
    [val |-> (base.val + index) % 65536,
     st  |-> Checked(base.st, base.val + index, 65536)]

\* `(mem_address >> 8) as u8 + 1`, a checked u8 sum
high_byte_plus_one(mem_address) == ((mem_address \div 256) + 1) % 256

checked_high_byte_plus_one(mem_address) ==
    Checked(mem_address.st, (mem_address.val \div 256) + 1, 256)

\* LAS (the arm of opcode 0x9b)
las(m) ==
    LET sp == BitAnd(m.register_a, m.register_x)
        write(mem_address) ==
            mem_write(checked_high_byte_plus_one(mem_address),
                      mem_address.val,
                      BitAnd(high_byte_plus_one(mem_address.val), sp))
    IN  write(add_index(mem_read_u16(SetSP(m, sp), m.program_counter),
                        m.register_y))

\* AHX Indirect Y
ahx_indirect_y(m) ==
    LET write(mem_address) ==
            mem_write(mem_address.st, mem_address.val,
                      BitAnd(BitAnd(m.register_a, m.register_x),
                             mem_address.val \div 256))
        deref(pos) == mem_read_u16(pos.st, pos.val)
    IN  write(add_index(deref(mem_read(m, m.program_counter)),
                        m.register_y))

\* AHX Absolute Y
ahx_absolute_y(m) ==
    LET write(mem_address) ==
            mem_write(mem_address.st, mem_address.val,
                      BitAnd(BitAnd(m.register_a, m.register_x),
                             mem_address.val \div 256))
    IN  write(add_index(mem_read_u16(m, m.program_counter), m.register_y))

\* SHX
shx(m) ==
    LET write(mem_address) ==
            mem_write(checked_high_byte_plus_one(mem_address),
                      mem_address.val,
                      BitAnd(m.register_y,
                             high_byte_plus_one(mem_address.val)))
    IN  write(add_index(mem_read_u16(m, m.program_counter), m.register_x))

\* the flag tests of the eight branch arms
C_FLAG == \h01
Z_FLAG == \h02
V_FLAG == \h40
N_FLAG == \h80
flag_set(m, flag) == BitAnd(m.status, flag) # 0

(***************************************************************************)
(* emu/cpu.rs: run_with_callback, interrupt, reset, load                   *)
(***************************************************************************)
\* the `match code` of run_with_callback; BRK returns from the loop
execute(m, code, opcode) ==
    IF Panicked(m) THEN m
    ELSE
    CASE code \in {\hA9, \hA5, \hB5, \hAD, \hBD, \hB9, \hA1, \hB1} ->
           lda(m, opcode.mode)
      [] code = \hD8 -> SetP(m, BitAnd(m.status, \hF7))
      [] code = \h58 -> SetP(m, BitAnd(m.status, \hFB))
      [] code = \hB8 -> SetP(m, BitAnd(m.status, \hBF))
      [] code = \h18 -> clear_carry_flag(m)
      [] code = \h38 -> set_carry_flag(m)
      [] code = \h78 -> SetP(m, BitOr(m.status, \h04))
      [] code = \hF8 -> SetP(m, BitOr(m.status, \h08))
      [] code = \h48 -> stack_push(m, m.register_a)
      [] code = \h68 -> pla(m)
      [] code = \h08 -> php(m)
      [] code = \h28 -> plp(m)
      [] code \in {\h69, \h65, \h75, \h6D, \h7D, \h79, \h61, \h71} ->
           adc(m, opcode.mode)
      [] code \in {\hE9, \hE5, \hF5, \hED, \hFD, \hF9, \hE1, \hF1} ->
           sbc(m, opcode.mode)
      [] code \in {\h29, \h25, \h35, \h2D, \h3D, \h39, \h21, \h31} ->
           and(m, opcode.mode)
      [] code \in {\h49, \h45, \h55, \h4D, \h5D, \h59, \h41, \h51} ->
           eor(m, opcode.mode)
      [] code \in {\h09, \h05, \h15, \h0D, \h1D, \h19, \h01, \h11} ->
           ora(m, opcode.mode)
      [] code = \h4A -> lsr_accumulator(m)
      [] code \in {\h46, \h56, \h4E, \h5E} -> lsr(m, opcode.mode).st
      [] code = \h0A -> asl_accumulator(m)
      [] code \in {\h06, \h16, \h0E, \h1E} -> asl(m, opcode.mode).st
      [] code = \h2A -> rol_accumulator(m)
      [] code \in {\h26, \h36, \h2E, \h3E} -> rol(m, opcode.mode).st
      [] code = \h6A -> ror_accumulator(m)
      [] code \in {\h66, \h76, \h6E, \h7E} -> ror(m, opcode.mode).st
      [] code \in {\hE6, \hF6, \hEE, \hFE} -> inc(m, opcode.mode).st
      [] code = \hE8 -> inx(m)
      [] code = \hC8 -> iny(m)
      [] code \in {\hC6, \hD6, \hCE, \hDE} -> dec(m, opcode.mode).st
      [] code = \hCA -> dex(m)
      [] code = \h88 -> dey(m)
      [] code \in {\hC9, \hC5, \hD5, \hCD, \hDD, \hD9, \hC1, \hD1} ->
           compare(m, opcode.mode, m.register_a)
      [] code \in {\hC0, \hC4, \hCC} -> compare(m, opcode.mode, m.register_y)
      [] code \in {\hE0, \hE4, \hEC} -> compare(m, opcode.mode, m.register_x)
      [] code = \h4C -> jmp_absolute(m)
      [] code = \h6C -> jmp_indirect(m)
      [] code = \h20 -> jsr(m)
      [] code = \h60 -> rts(m)
      [] code = \h40 -> rti(m)
      [] code = \hD0 -> branch(m, ~flag_set(m, Z_FLAG))
      [] code = \h70 -> branch(m, flag_set(m, V_FLAG))
      [] code = \h50 -> branch(m, ~flag_set(m, V_FLAG))
      [] code = \h10 -> branch(m, ~flag_set(m, N_FLAG))
      [] code = \h30 -> branch(m, flag_set(m, N_FLAG))
      [] code = \hF0 -> branch(m, flag_set(m, Z_FLAG))
      [] code = \hB0 -> branch(m, flag_set(m, C_FLAG))
      [] code = \h90 -> branch(m, ~flag_set(m, C_FLAG))
      [] code \in {\h24, \h2C} -> bit(m, opcode.mode)
      [] code \in {\h85, \h95, \h8D, \h9D, \h99, \h81, \h91} ->
           sta(m, opcode.mode)
      [] code \in {\h86, \h96, \h8E} -> store(m, opcode.mode, m.register_x)
      [] code \in {\h84, \h94, \h8C} -> store(m, opcode.mode, m.register_y)
      [] code \in {\hA2, \hA6, \hB6, \hAE, \hBE} -> ldx(m, opcode.mode)
      [] code \in {\hA0, \hA4, \hB4, \hAC, \hBC} -> ldy(m, opcode.mode)
      [] code = \hAA -> tax(m)
      [] code = \hA8 ->
           update_zero_and_negative_flags(SetY(m, m.register_a), m.register_a)
      [] code = \hBA ->
           update_zero_and_negative_flags(
               SetX(m, m.stack_pointer), m.stack_pointer)
      [] code = \h8A ->
           update_zero_and_negative_flags(SetA(m, m.register_x), m.register_x)
      [] code = \h9A -> SetSP(m, m.register_x)
      [] code = \h98 ->
           update_zero_and_negative_flags(SetA(m, m.register_y), m.register_y)
      [] code = \hEA -> m
      [] code = \h00 -> [m EXCEPT !.at = "returned"]
      [] code \in {\h04, \h44, \h64, \h14, \h34, \h54, \h74, \hD4, \hF4,
                   \h0C, \h1C, \h3C, \h5C, \h7C, \hDC, \hFC} ->
           nop_read(m, opcode.mode)
      [] code \in {\h02, \h12, \h22, \h32, \h42, \h52, \h62, \h72, \h92,
                   \hB2, \hD2, \hF2} -> m
      [] code \in {\h1A, \h3A, \h5A, \h7A, \hDA, \hFA} -> m
      [] code \in {\h80, \h82, \h89, \hC2, \hE2} -> m
      [] code \in {\hA7, \hB7, \hAF, \hBF, \hA3, \hB3} -> lax(m, opcode.mode)
      [] code \in {\h87, \h97, \h8F, \h83} ->
           store(m, opcode.mode, BitAnd(m.register_a, m.register_x))
      [] code = \hEB -> sbc(m, opcode.mode)
      [] code \in {\hC7, \hD7, \hCF, \hDF, \hDB, \hD3, \hC3} ->
           dcp(m, opcode.mode)
      [] code \in {\hE7, \hF7, \hEF, \hFF, \hFB, \hE3, \hF3} ->
           unofficial_isb(m, opcode.mode)
      [] code \in {\h07, \h17, \h0F, \h1F, \h1B, \h03, \h13} ->
           unofficial_slo(m, opcode.mode)
      [] code \in {\h27, \h37, \h2F, \h3F, \h3B, \h33, \h23} ->
           unofficial_rla(m, opcode.mode)
      [] code \in {\h47, \h57, \h4F, \h5F, \h5B, \h43, \h53} ->
           unofficial_sre(m, opcode.mode)
      [] code \in {\h67, \h77, \h6F, \h7F, \h7B, \h63, \h73} ->
           unofficial_rra(m, opcode.mode)
      [] code = \hCB -> axs(m, opcode.mode)
      [] code = \h6B -> arr(m, opcode.mode)
      [] code \in {\h0B, \h2B} -> anc(m, opcode.mode)
      [] code = \h4B -> alr(m, opcode.mode)
      [] code = \hAB -> lxa(m, opcode.mode)
      [] code = \h8B -> xaa(m, opcode.mode)
      [] code = \h9B -> las(m)
      [] code = \h93 -> ahx_indirect_y(m)
      [] code = \h9F -> ahx_absolute_y(m)
      [] code = \h9E -> shx(m)
      [] OTHER -> Panic(m, "not yet implemented")

\* CPU::interrupt
interrupt(m, irq) ==
    LET flag0 == m.status
        flag1 == IF BitAnd(irq.b_flag_mask, \h10) = 1
                 THEN BitOr(flag0, \h10) ELSE BitAnd(flag0, \hEF)
        flag  == IF BitAnd(irq.b_flag_mask, \h20) = 1
                 THEN BitOr(flag1, \h20) ELSE BitAnd(flag1, \hDF)
        set_i(m2) == SetP(m2, BitOr(m2.status, \h04))
    IN  jump_to(mem_read_u16(
            tick(set_i(stack_push(
                     stack_push_u16(Log(m, <<"interrupt", irq.itype>>),
                                    m.program_counter),
                     flag)),
                 irq.cpu_cycles),
            irq.vector_addr))

\* `self.program_counter += n`, a checked u16 sum
advance_pc(m, n) ==
    SetPC(Checked(m, m.program_counter + n, 65536),
          (m.program_counter + n) % 65536)

\* the poll that takes the latch and goes on to the fetch without the entry
poll_without_entry(m) == poll_nmi_status(m).st

\* run_with_callback, the top of the loop: the poll of the NMI latch
poll_interrupt(m) ==
    LET enter(polled) ==
            IF polled.val THEN interrupt(polled.st, MNI) ELSE polled.st
    IN  enter(poll_nmi_status(m))

\* run_with_callback, the fetch: [code, st].  callback(self), the trace hook
\* before it, is empty in run()
fetch(m) ==
    LET fetched(code) ==
            [code |-> code.val,
             st   |-> advance_pc(
                          Log(code.st,
                              <<"fetch", m.program_counter, code.val>>),
                          1)]
    IN  fetched(mem_read(m, m.program_counter))

\* run_with_callback, the table lookup and the match
dispatch(f) ==
    [program_counter_state |-> f.st.program_counter,
     opcode                |-> OpCode(f.code),
     st                    |-> execute(f.st, f.code, OpCode(f.code))]

\* run_with_callback, after the match (BRK has returned; a panic unwinds)
charge(d) ==
    LET finish(m) ==
            IF d.program_counter_state = m.program_counter
                THEN advance_pc(m, d.opcode.len - 1)
                ELSE m
    IN  IF Panicked(d.st) \/ d.st.at = "returned" THEN d.st
        ELSE finish(tick(d.st, d.opcode.cycles))

\* one iteration of the loop of run_with_callback
run_iteration(m) == charge(dispatch(fetch(poll_interrupt(m))))

\* reset without `self.register_x = 0`
reset_leaving_x(m) ==
    jump_to(mem_read_u16(
        SetP(SetSP(SetY(SetA(m, 0), 0), \hFD), \h24), \hFFFC))

\* CPU::reset
reset(m) ==
    jump_to(mem_read_u16(
        SetP(SetSP(SetY(SetX(SetA(m, 0), 0), 0), \hFD), \h24), \hFFFC))

\* CPU::load
RECURSIVE load_from(_, _, _)
load_from(m, program, i) ==
    IF i = Len(program) THEN m
    ELSE load_from(mem_write(m, \h0600 + i, program[i + 1]), program, i + 1)

load(m, program) == load_from(m, program, 0)

\* CPU::load_and_run, up to its call of run()
load_and_run(m, program) == SetPC(reset(load(m, program)), \h0600)

(***************************************************************************)
(* The state: the fields of CPU (emu/cpu.rs) and of its Bus (emu/bus.rs),  *)
(* the build profile, the position of the host program (main.rs, or a      *)
(* harness), and the record of the latest operation.                       *)
(***************************************************************************)
VARIABLES
    register_a, register_x, register_y, status, program_counter,
    stack_pointer,                      \* CPU
    cpu_vram, rom, ppu, cycles, joypad1, \* Bus
    frames,             \* invocations of the frame callback so far
    panic,              \* NoPanic, or the reason the process aborted
    overflow_checks,    \* TRUE: the dev profile, FALSE: the release profile
    at,                 \* "new", "reset", "run", "returned", "final"
    calls,              \* operations the host made on the bus directly
    events,             \* what the latest operation did, in order
    last                \* the latest operation, its inputs and the state before

vars == <<register_a, register_x, register_y, status, program_counter,
          stack_pointer, cpu_vram, rom, ppu, cycles, joypad1, frames, panic,
          overflow_checks, at, calls, events, last>>

Machine ==
    [register_a      |-> register_a,
     register_x      |-> register_x,
     register_y      |-> register_y,
     status          |-> status,
     program_counter |-> program_counter,
     stack_pointer   |-> stack_pointer,
     cpu_vram        |-> cpu_vram,
     rom             |-> rom,
     ppu             |-> ppu,
     cycles          |-> cycles,
     joypad1         |-> joypad1,
     frames          |-> frames,
     panic           |-> panic,
     overflow_checks |-> overflow_checks,
     at              |-> at,
     events          |-> events]

Become(m) ==
    /\ register_a' = m.register_a
    /\ register_x' = m.register_x
    /\ register_y' = m.register_y
    /\ status' = m.status
    /\ program_counter' = m.program_counter
    /\ stack_pointer' = m.stack_pointer
    /\ cpu_vram' = m.cpu_vram
    /\ rom' = m.rom
    /\ ppu' = m.ppu
    /\ cycles' = m.cycles
    /\ joypad1' = m.joypad1
    /\ frames' = m.frames
    /\ panic' = m.panic
    /\ overflow_checks' = m.overflow_checks
    /\ at' = m.at
    /\ events' = m.events

\* the machine as an operation finds it: nothing done yet, and the vblank
\* that the PPU reaches during the k-th advance of the operation (0: none)
Entering(k) == [Machine EXCEPT !.events = <<>>, !.ppu.until_vblank = k]

Leaving(m) == [m EXCEPT !.ppu.until_vblank = 0]

\* Bus::new and CPU::new
Init ==
    /\ register_a = 0
    /\ register_x = 0
    /\ register_y = 0
    /\ status = \h24
    /\ program_counter = 0
    /\ stack_pointer = \hFD
    /\ cpu_vram = NoCells
    /\ rom \in Roms
    /\ ppu = NewPPU
    /\ cycles = 0
    /\ joypad1 = NewJoypad
    /\ frames = 0
    /\ panic = NoPanic
    /\ overflow_checks \in BOOLEAN
    /\ at = "new"
    /\ calls = 0
    /\ events = <<>>
    /\ last = [op |-> "new"]

(***************************************************************************)
(* Programs a harness loads at 0x0600: a prefix that sets the registers,   *)
(* then one instruction, every opcode byte with operands from a small set. *)
(* The RAM behind the program is zero, which is BRK.                       *)
(***************************************************************************)
OperandBytes == {\h00, \h10, \hFF}

Prefixes ==
    { <<>>,
      <<\hA2, \hFF, \hA0, \hFF, \hA9, \hFF, \h38>> }
                                \* LDX #$FF; LDY #$FF; LDA #$FF; SEC

Instructions ==
    UNION { { <<code>> \o operands :
                operands \in [1 .. OpCode(code).len - 1 -> OperandBytes] } :
            code \in Byte }

Programs ==
    { prefix \o instruction :
        prefix \in Prefixes,
        instruction \in Instructions }

VblankChoices ==
    IF ppu.vblanks < MaxVblanks THEN 0 .. MaxTickCalls ELSE {0}

\* a harness: CPU::load_and_run, up to the loop
LoadAndRun(program) ==
    /\ at = "new"
    /\ rom = HarnessRom
    /\ Become([load_and_run(Entering(0), program) EXCEPT !.at = "run"])
    /\ last' = [op |-> "load_and_run", pre |-> Machine, program |-> program]
    /\ UNCHANGED calls

\* main.rs: cpu.reset() before the loop; a host may reset again after it
Reset ==
    /\ at \in {"new", "returned"}
    /\ ~Panicked(Machine)
    /\ Become([reset(Entering(0)) EXCEPT
                 !.at = IF at = "new" THEN "reset" ELSE "final"])
    /\ last' = [op |-> "reset", pre |-> Machine]
    /\ UNCHANGED calls

\* one iteration of the loop of run_with_callback
Step(k) ==
    /\ at \in {"reset", "run"}
    /\ ~Panicked(Machine)
    /\ cycles < MaxCycles
    /\ Become(Leaving(run_iteration([Entering(k) EXCEPT !.at = "run"])))
    /\ last' = [op |-> "run_iteration", pre |-> Machine, vblank |-> k]
    /\ UNCHANGED calls

Next ==
    \/ \E program \in Programs : LoadAndRun(program)
    \/ Reset
    \/ \E k \in VblankChoices : Step(k)

Spec == Init /\ [][Next]_vars

(***************************************************************************)
(* The bus on its own: a host that fills RAM, programs the PPU or reads    *)
(* back before the CPU runs, as the tests of cpu.rs do with mem_write.     *)
(***************************************************************************)
BusAddrs ==
    { \h0000, \h07FF, \h0800, \h1001, \h1FFF,   \* RAM and its mirrors
      \h2000, \h2002, \h2004, \h3FFA,           \* PPU registers, a mirror
      \h4014, \h4016, \h4020,                   \* OAM DMA, joypad, unmapped
      \h8000, \hC000, \hFFFF }                  \* PRG-ROM

BusBytes == {\h00, \h55, \h80}

BusTicks == {0, 1, 85, 86, 255}

BusCall(op, m) ==
    /\ Become(Leaving(m))
    /\ calls' = calls + 1
    /\ last' = [op EXCEPT !.pre = Machine]

BusReady ==
    /\ at = "new"
    /\ ~Panicked(Machine)
    /\ calls < MaxBusOps

BusRead(addr) ==
    /\ BusReady
    /\ BusCall([op |-> "mem_read", addr |-> addr,
                val |-> mem_read(Entering(0), addr).val, pre |-> <<>>],
               mem_read(Entering(0), addr).st)

BusWrite(addr, data) ==
    /\ BusReady
    /\ BusCall([op |-> "mem_write", addr |-> addr, data |-> data,
                pre |-> <<>>],
               mem_write(Entering(0), addr, data))

BusTick(n, k) ==
    /\ BusReady
    /\ BusCall([op |-> "tick", n |-> n, vblank |-> k, pre |-> <<>>],
               tick(Entering(k), n))

BusNext ==
    \/ \E addr \in BusAddrs : BusRead(addr)
    \/ \E addr \in BusAddrs, data \in BusBytes : BusWrite(addr, data)
    \/ \E n \in BusTicks, k \in {0, 1} : BusTick(n, k)

BusSpec == Init /\ [][BusNext]_vars

(***************************************************************************)
(* One instruction at a time: a harness whose program has filled RAM and   *)
(* the registers and has reached the instruction under test, which the     *)
(* program holds twice in a row.  The loop then runs it.                   *)
(***************************************************************************)
\* the loop runs at most this many instructions of the program
MaxInstrSteps == 2

\* where the instruction under test lies: at the start of the program, or
\* with its second byte at the last byte of a page
InstrBases == {\h0600, \h06FE}

RegisterBytes == {\h00, \h01, \hFF}

StackPointers == {\hFD, \h00}

\* P after reset, and P with N, V, Z and C set as well
StatusBytes == {\h24, \hE7}

\* RAM as the program has filled it: data in the zero page, of which some
\* pairs of cells are pointers into the zero page, the stack page and ROM,
\* and data in the stack page
DataRam ==
    (\h0000 :> \h80 @@ \h0001 :> \h01 @@ \h000F :> \h7F @@ \h0010 :> \hFF @@
     \h00FE :> \h7F @@ \h00FF :> \h01 @@ \h0100 :> \hC0 @@ \h010F :> \hFF @@
     \h017F :> \h81 @@ \h0180 :> \h7F @@ \h0181 :> \h01 @@ \h01FE :> \h55)

\* LDA, LDX, LDY; INC, DEC, INX, INY, DEX, DEY; the transfers; the branches
LoadCodes ==
    {\hA9, \hA5, \hB5, \hAD, \hBD, \hB9, \hA1, \hB1,
     \hA2, \hA6, \hB6, \hAE, \hBE,
     \hA0, \hA4, \hB4, \hAC, \hBC}
StepCodes ==
    {\hE6, \hF6, \hEE, \hFE, \hC6, \hD6, \hCE, \hDE, \hE8, \hC8, \hCA, \h88}
TransferCodes == {\hAA, \hA8, \hBA, \h8A, \h9A, \h98}
BranchCodes == {\h10, \h30, \h50, \h70, \h90, \hB0, \hD0, \hF0}

TestedInstructions ==
    { instruction \in Instructions :
        instruction[1] \in LoadCodes \cup StepCodes \cup TransferCodes
                               \cup BranchCodes }

\* memory with the bytes of a program from base on
Planted(mem, base, program) ==
    LET at_cell(i) ==
            IF i \in base .. base + Len(program) - 1
                THEN program[i - base + 1]
                ELSE CellAt(mem, i, 0)
    IN  [i \in {j \in DOMAIN mem \cup (base .. base + Len(program) - 1) :
                    at_cell(j) # 0} |-> at_cell(i)]

InstrInit ==
    /\ register_a \in RegisterBytes
    /\ register_x \in RegisterBytes
    /\ register_y \in RegisterBytes
    /\ status \in StatusBytes
    /\ stack_pointer \in StackPointers
    /\ program_counter \in InstrBases
    /\ \E instruction \in TestedInstructions :
           cpu_vram = Planted(DataRam, program_counter,
                              instruction \o instruction)
    /\ rom = HarnessRom
    /\ ppu = NewPPU
    /\ cycles = 0
    /\ joypad1 = NewJoypad
    /\ frames = 0
    /\ panic = NoPanic
    /\ overflow_checks \in BOOLEAN
    /\ at = "run"
    /\ calls = 0
    /\ events = <<>>
    /\ last = [op |-> "loaded"]

\* one iteration of the loop of run_with_callback, the PPU far from vblank
InstrStep ==
    /\ at = "run"
    /\ ~Panicked(Machine)
    /\ calls < MaxInstrSteps
    /\ Become(Leaving(run_iteration(Entering(0))))
    /\ calls' = calls + 1
    /\ last' = [op |-> "run_iteration", pre |-> Machine, vblank |-> 0,
                start |-> IF calls = 0 THEN Machine ELSE last.start]

InstrSpec == InstrInit /\ [][InstrStep]_vars

(***************************************************************************)
(* The shifts and the unofficial read-modify-write and immediate opcodes,  *)
(* one instruction at a time as above.                                     *)
(***************************************************************************)
\* ASL and LSR of memory; SLO, RLA, SRE; DCP; ANC; AXS
ShiftCodes == {\h06, \h16, \h0E, \h1E, \h46, \h56, \h4E, \h5E}
SloCodes == {\h07, \h17, \h0F, \h1F, \h1B, \h03, \h13}
RlaCodes == {\h27, \h37, \h2F, \h3F, \h3B, \h33, \h23}
SreCodes == {\h47, \h57, \h4F, \h5F, \h5B, \h43, \h53}
DcpCodes == {\hC7, \hD7, \hCF, \hDF, \hDB, \hD3, \hC3}
AncCodes == {\h0B, \h2B}
AxsCodes == {\hCB}

AluInstructions ==
    { instruction \in Instructions :
        instruction[1] \in ShiftCodes \cup SloCodes \cup RlaCodes
                               \cup SreCodes \cup DcpCodes \cup AncCodes
                               \cup AxsCodes }

AluInit ==
    /\ register_a \in RegisterBytes
    /\ register_x \in RegisterBytes
    /\ register_y \in RegisterBytes
    /\ status \in StatusBytes
    /\ stack_pointer \in StackPointers
    /\ program_counter \in InstrBases
    /\ \E instruction \in AluInstructions :
           cpu_vram = Planted(DataRam, program_counter,
                              instruction \o instruction)
    /\ rom = HarnessRom
    /\ ppu = NewPPU
    /\ cycles = 0
    /\ joypad1 = NewJoypad
    /\ frames = 0
    /\ panic = NoPanic
    /\ overflow_checks \in BOOLEAN
    /\ at = "run"
    /\ calls = 0
    /\ events = <<>>
    /\ last = [op |-> "loaded"]

AluSpec == AluInit /\ [][InstrStep]_vars

(***************************************************************************)
(* Call and return: the program has reached a JSR, in RAM or in the last   *)
(* three bytes of the cartridge, whose subroutine is a single RTS.         *)
(***************************************************************************)
\* a cartridge whose last three bytes are JSR $0300
CallRom ==
    [len   |-> \h8000,
     fill  |-> \h00,
     bytes |-> (\h7FFD :> \h20 @@ \h7FFE :> \h00 @@ \h7FFF :> \h03)]

\* where the JSR lies: at the start of the program, across a page boundary,
\* at the end of the address space
CallBases == {\h0600, \h06FE, \hFFFD}

\* the stack pointer after reset, and stack pointers that wrap during the
\* call
CallStackPointers == {\hFD, \h01, \h00}

\* the subroutine: in RAM at 0x0300, the same through a mirror of RAM, and
\* the address of the JSR's own operand
CallTargets(p) ==
    IF p = \hFFFD THEN {\h0300} ELSE {\h0300, \h1300, p + 1}

CallInit ==
    /\ register_a = 0
    /\ register_x = 0
    /\ register_y = 0
    /\ status \in StatusBytes
    /\ stack_pointer \in CallStackPointers
    /\ program_counter \in CallBases
    /\ \E target \in CallTargets(program_counter) :
           cpu_vram =
               IF program_counter = \hFFFD
                   THEN Planted(NoCells, \h0300, <<\h60>>)
                   ELSE Planted(Planted(NoCells, \h0300, <<\h60>>),
                                program_counter,
                                <<\h20, target % 256, target \div 256>>)
    /\ rom = IF program_counter = \hFFFD THEN CallRom ELSE HarnessRom
    /\ ppu = NewPPU
    /\ cycles = 0
    /\ joypad1 = NewJoypad
    /\ frames = 0
    /\ panic = NoPanic
    /\ overflow_checks \in BOOLEAN
    /\ at = "run"
    /\ calls = 0
    /\ events = <<>>
    /\ last = [op |-> "loaded"]

CallSpec == CallInit /\ [][InstrStep]_vars

(***************************************************************************)
(* Reads and stores in every addressing mode, one instruction at a time as *)
(* above, with the index registers varied.                                 *)
(***************************************************************************)
\* ADC, SBC; AND, ORA, EOR; CMP; with LoadCodes the instructions that pay
\* for a page crossing
AdcSbcCodes ==
    {\h69, \h65, \h75, \h6D, \h7D, \h79, \h61, \h71,
     \hE9, \hE5, \hF5, \hED, \hFD, \hF9, \hE1, \hF1}
LogicCodes ==
    {\h29, \h25, \h35, \h2D, \h3D, \h39, \h21, \h31,
     \h09, \h05, \h15, \h0D, \h1D, \h19, \h01, \h11,
     \h49, \h45, \h55, \h4D, \h5D, \h59, \h41, \h51}
CmpCodes == {\hC9, \hC5, \hD5, \hCD, \hDD, \hD9, \hC1, \hD1}
PenalisedCodes == LoadCodes \cup AdcSbcCodes \cup LogicCodes \cup CmpCodes

\* STA, STX, STY
StoreCodes ==
    {\h85, \h95, \h8D, \h9D, \h99, \h81, \h91,
     \h86, \h96, \h8E,
     \h84, \h94, \h8C}

PenaltyInstructions ==
    { instruction \in Instructions :
        instruction[1] \in PenalisedCodes \cup StoreCodes }

PenaltyInit ==
    /\ register_a = \h01
    /\ register_x \in RegisterBytes
    /\ register_y \in RegisterBytes
    /\ status \in StatusBytes
    /\ stack_pointer = \hFD
    /\ program_counter \in InstrBases
    /\ \E instruction \in PenaltyInstructions :
           cpu_vram = Planted(DataRam, program_counter,
                              instruction \o instruction)
    /\ rom = HarnessRom
    /\ ppu = NewPPU
    /\ cycles = 0
    /\ joypad1 = NewJoypad
    /\ frames = 0
    /\ panic = NoPanic
    /\ overflow_checks \in BOOLEAN
    /\ at = "run"
    /\ calls = 0
    /\ events = <<>>
    /\ last = [op |-> "loaded"]

PenaltySpec == PenaltyInit /\ [][InstrStep]_vars

(***************************************************************************)
(* The adder: a harness whose program has set A and the carry and has      *)
(* reached an ADC or SBC with an immediate operand, for every A, every     *)
(* operand and either carry.                                               *)
(***************************************************************************)
\* ADC #, SBC #
AdderCodes == {\h69, \hE9}

\* P after reset and P with N, V and Z set, either with the carry clear or set
AdderStatusBytes == {\h24, \h25, \hE6, \hE7}

AdderInit ==
    /\ register_a \in Byte
    /\ register_x = 0
    /\ register_y = 0
    /\ status \in AdderStatusBytes
    /\ stack_pointer = \hFD
    /\ program_counter = \h0600
    /\ \E code \in AdderCodes, operand \in Byte :
           cpu_vram = Planted(NoCells, \h0600, <<code, operand>>)
    /\ rom = HarnessRom
    /\ ppu = NewPPU
    /\ cycles = 0
    /\ joypad1 = NewJoypad
    /\ frames = 0
    /\ panic = NoPanic
    /\ overflow_checks = TRUE
    /\ at = "run"
    /\ calls = 0
    /\ events = <<>>
    /\ last = [op |-> "loaded"]

\* the iteration of the loop that runs the ADC or SBC
AdderStep ==
    /\ at = "run"
    /\ calls = 0
    /\ Become(Leaving(run_iteration(Entering(0))))
    /\ calls' = calls + 1
    /\ last' = [op |-> "run_iteration", pre |-> Machine, vblank |-> 0]

AdderSpec == AdderInit /\ [][AdderStep]_vars

(***************************************************************************)
(* OAM DMA: a host that fills cells of RAM page 2, sets the OAM address    *)
(* and starts a DMA from a page of RAM, of a RAM mirror or of the ROM.     *)
(***************************************************************************)
DmaAddrs == {\h0200, \h02FF, \h2003, \h4014}

\* bytes to store, OAM addresses, and pages: the stack page, page 2 of RAM,
\* its mirror at 0x0A00, and the first page of the ROM
DmaBytes == {\h01, \h02, \h0A, \h80}

DmaNext == \E addr \in DmaAddrs, data \in DmaBytes : BusWrite(addr, data)

DmaSpec == Init /\ [][DmaNext]_vars

(***************************************************************************)
(* The controller port: the frame callback has pressed some buttons; a     *)
(* host writes the strobe to 0x4016 and reads the buttons from it.  The    *)
(* record of the latest call also tells where the port is in its cycle:    *)
(* "strobe" after a write of 1, "shift" after the write of 0 that follows, *)
(* and how many reads there were since.                                    *)
(***************************************************************************)
\* a host makes at most this many calls on the port
MaxJoyOps == 11

\* nothing pressed; A; RIGHT; A, SELECT, DOWN and RIGHT; everything
ButtonBitmaps == {\h00, \h01, \h80, \hA5, \hFF}

JoypadInit ==
    /\ register_a = 0
    /\ register_x = 0
    /\ register_y = 0
    /\ status = \h24
    /\ program_counter = 0
    /\ stack_pointer = \hFD
    /\ cpu_vram = NoCells
    /\ rom = HarnessRom
    /\ ppu = NewPPU
    /\ cycles = 0
    /\ \E pressed \in ButtonBitmaps :
           joypad1 = [NewJoypad EXCEPT !.button_status = pressed]
    /\ frames = 0
    /\ panic = NoPanic
    /\ overflow_checks \in BOOLEAN
    /\ at = "new"
    /\ calls = 0
    /\ events = <<>>
    /\ last = [op |-> "new", phase |-> "idle", reads |-> 0]

JoypadReady ==
    /\ at = "new"
    /\ ~Panicked(Machine)
    /\ calls < MaxJoyOps

\* bus.mem_write(0x4016, data)
JoypadWrite(data) ==
    /\ JoypadReady
    /\ Become(Leaving(mem_write(Entering(0), \h4016, data)))
    /\ calls' = calls + 1
    /\ last' = [op    |-> "mem_write", addr |-> \h4016, data |-> data,
                pre   |-> Machine,
                phase |-> IF data = 1 THEN "strobe"
                          ELSE IF last.phase = "strobe" THEN "shift"
                          ELSE last.phase,
                reads |-> IF data = 0 /\ last.phase = "shift"
                              THEN last.reads ELSE 0]

\* bus.mem_read(0x4016)
JoypadRead ==
    /\ JoypadReady
    /\ Become(Leaving(mem_read(Entering(0), \h4016).st))
    /\ calls' = calls + 1
    /\ last' = [op    |-> "mem_read", addr |-> \h4016,
                val   |-> mem_read(Entering(0), \h4016).val,
                pre   |-> Machine,
                phase |-> last.phase,
                reads |-> last.reads + 1]

JoypadNext ==
    \/ \E data \in {0, 1} : JoypadWrite(data)
    \/ JoypadRead

JoypadSpec == JoypadInit /\ [][JoypadNext]_vars

(***************************************************************************)
(* Properties.                                                             *)
(***************************************************************************)
\* the records of one kind among those of the latest operation
EventsOf(kind) == { i \in 1 .. Len(events) : events[i][1] = kind }

\* the latest operation was a loop iteration that fetched this opcode
Fetched(code) ==
    /\ last.op = "run_iteration"
    /\ \E i \in EventsOf("fetch") : events[i][3] = code

\* C1: in every state reachable from reset() by instructions and NMI
\* entries, bit 5 (U) of the status register is 1
UnusedFlagStaysSet == at # "new" => BitAnd(status, \h20) = \h20

\* a PLP has pulled a byte whose bit 5 is 0
PulledFlagsWithoutUnused ==
    /\ Fetched(\h28)
    /\ ~Panicked(Machine)
    /\ BitAnd(CellAt(cpu_vram, \h0100 + stack_pointer, 0), \h20) = 0

\* the RAM cells that may differ from zero now, and the two ends of RAM
RamProbes == DOMAIN cpu_vram \cup {\h0000, \h07FF}

MirrorsAgree(a) ==
    /\ mem_read(Machine, a).val = mem_read(Machine, a + \h0800).val
    /\ mem_read(Machine, a).val = mem_read(Machine, a + \h1000).val
    /\ mem_read(Machine, a).val = mem_read(Machine, a + \h1800).val

\* C2 as stated: for every address a in 0x0000..0x1FFF, the reads of a,
\* a + 0x0800, a + 0x1000 and a + 0x1800 return the same byte
MirrorReadsAgreeBelow2000 ==
    \A i \in RamProbes, k \in 0 .. 3 : MirrorsAgree(i + k * \h0800)

\* C2, amended: for every address a in 0x0000..0x07FF, the reads of a,
\* a + 0x0800, a + 0x1000 and a + 0x1800 return the same byte
MirrorReadsAgree == \A a \in RamProbes : MirrorsAgree(a)

\* a read through a mirror has returned a byte written before
ReadThroughMirror ==
    /\ last.op = "mem_read"
    /\ last.addr \in {\h0800, \h1001, \h1FFF}
    /\ last.val # 0

\* C3: mem_write(a, v) to a RAM address followed by mem_read(a) returns v,
\* and the RAM cells other than a AND 0x07FF keep their values
WriteThenRead ==
    (last.op = "mem_write" /\ last.addr \in RAM..RAM_MIRRORS_END) =>
        /\ mem_read(Machine, last.addr).val = last.data
        /\ \A i \in (DOMAIN cpu_vram \cup DOMAIN last.pre.cpu_vram)
                        \ {BitAnd(last.addr, \h07FF)} :
               CellAt(cpu_vram, i, 0) = CellAt(last.pre.cpu_vram, i, 0)

\* a write through a mirror into a RAM that holds another byte already
WroteThroughMirror ==
    /\ last.op = "mem_write"
    /\ last.addr = \h1001
    /\ last.data = \h55
    /\ \E i \in DOMAIN last.pre.cpu_vram : i # \h0001

\* C4: for every 8-bit cycle count n, tick(n) advances the PPU by exactly
\* 3 * n dots and the bus cycle counter by exactly n
TickAdvancesThreeDotsPerCycle ==
    last.op = "tick" =>
        /\ ppu.dots = last.pre.ppu.dots + 3 * last.n
        /\ cycles = last.pre.cycles + last.n

\* C5: every opcode byte dispatches to a handler; the loop never reaches
\* the fatal path of an unrecognized or unimplemented opcode
EveryOpcodeHasHandler == panic # "not yet implemented"

\* the opcodes that write PC: JMP, JMP (ind), JSR, RTS, RTI
Jumps == {\h4C, \h6C, \h20, \h60, \h40}

\* a branch opcode whose condition holds of the flags
BranchTaken(code) ==
    CASE code = \h10 -> BitAnd(status, \h80) = 0
      [] code = \h30 -> BitAnd(status, \h80) # 0
      [] code = \h50 -> BitAnd(status, \h40) = 0
      [] code = \h70 -> BitAnd(status, \h40) # 0
      [] code = \h90 -> BitAnd(status, \h01) = 0
      [] code = \hB0 -> BitAnd(status, \h01) # 0
      [] code = \hD0 -> BitAnd(status, \h02) = 0
      [] code = \hF0 -> BitAnd(status, \h02) # 0
      [] OTHER -> FALSE

\* C6: an instruction that is not a jump, taken branch, call or return,
\* executed at opcode address p, leaves PC = p + its length; an untaken
\* branch ends at p + 2.  (A store that the bus aborts as a write to the
\* cartridge ROM is a fatal error by design and not an executed instruction.)
PcAdvancesByLength ==
    (/\ last.op = "run_iteration"
     /\ panic # "Attempt to write to Cartridge ROM space") =>
        \A i \in EventsOf("fetch") :
            (events[i][3] \notin Jumps /\ ~BranchTaken(events[i][3])) =>
                program_counter
                    = (events[i][2] + OpCode(events[i][3]).len) % 65536

\* C7: within one call of tick the frame callback is invoked exactly once
\* if the NMI latch was unset before the PPU advance and set after it, and
\* not at all otherwise
CallbackOncePerEdge ==
    /\ \A i \in EventsOf("tick") :
           (i < Len(events) /\ events[i + 1][1] = "gameloop_callback")
               <=> (~events[i][3] /\ events[i][4])
    /\ \A i \in EventsOf("gameloop_callback") :
           i > 1 /\ events[i - 1][1] = "tick"
    /\ last.op = "run_iteration" =>
           frames = last.pre.frames
                        + Cardinality(EventsOf("gameloop_callback"))

\* one iteration ticked the latch set, fired the callback, and ticked again
\* with the latch still pending
TickedAcrossPendingLatch ==
    \E i, j \in EventsOf("tick") :
        /\ i < j
        /\ ~events[i][3] /\ events[i][4]
        /\ events[i + 1][1] = "gameloop_callback"
        /\ events[j][3] /\ events[j][4]

\* the byte and the little-endian word the cartridge holds for a CPU address
RomByte(r, addr) == CellAt(r.bytes, (addr - \h8000) % r.len, r.fill)
RomWord(r, addr) == RomByte(r, addr) + 256 * RomByte(r, addr + 1)

\* the machine of the latest loop iteration right after the poll at its top
Entered ==
    poll_interrupt([last.pre EXCEPT !.events = <<>>, !.at = "run",
                                    !.ppu.until_vblank = last.vblank])

\* the k-th byte pushed from the stack pointer sp on
Pushed(m, sp, k) == CellAt(m.cpu_vram, \h0100 + WrapSub8(sp, k), 0)

\* C8: NMI entry pushes PC high, PC low, then P with B = 0 and U = 1, sets
\* I, charges 2 cycles through tick and loads PC from 0xFFFA
NmiEntrySequence ==
    (last.op = "run_iteration" /\ last.pre.ppu.nmi_interrupt) =>
        /\ Pushed(Entered, last.pre.stack_pointer, 0)
               = last.pre.program_counter \div 256
        /\ Pushed(Entered, last.pre.stack_pointer, 1)
               = last.pre.program_counter % 256
        /\ BitAnd(Pushed(Entered, last.pre.stack_pointer, 2), \h10) = 0
        /\ BitAnd(Pushed(Entered, last.pre.stack_pointer, 2), \h20) = \h20
        /\ Entered.stack_pointer = WrapSub8(last.pre.stack_pointer, 3)
        /\ BitAnd(Entered.status, \h04) = \h04
        /\ Entered.cycles = last.pre.cycles + 2
        /\ \E i \in 1 .. Len(Entered.events) :
               Entered.events[i][1] = "tick" /\ Entered.events[i][2] = 2
        /\ Entered.program_counter = RomWord(rom, \hFFFA)

\* C9: interrupt entry happens only at the top of a loop iteration, before
\* the fetch; a latched NMI gets exactly one entry, the latch is clear after
\* it, and the next opcode is fetched at the address loaded from 0xFFFA
InterruptOnlyAtLoopTop ==
    last.op = "run_iteration" =>
        /\ Cardinality(EventsOf("fetch")) = 1
        /\ EventsOf("interrupt")
               = IF last.pre.ppu.nmi_interrupt THEN {1} ELSE {}
        /\ \A i \in EventsOf("interrupt"), j \in EventsOf("fetch") :
               /\ i < j
               /\ events[j][2] = RomWord(rom, \hFFFA)
        /\ ppu.nmi_interrupt => ppu.vblanks > last.pre.ppu.vblanks

\* an iteration found the latch set, entered the interrupt and fetched the
\* handler's first opcode
EnteredPendingNmi ==
    /\ last.op = "run_iteration"
    /\ last.pre.ppu.nmi_interrupt
    /\ EventsOf("interrupt") = {1}
    /\ \E j \in EventsOf("fetch") : events[j][2] = RomWord(rom, \hFFFA)
    /\ ~ppu.nmi_interrupt

\* C10: from any CPU state, reset() leaves A = X = Y = 0, S = 0xFD,
\* P = 0b0010_0100 and PC = the word at 0xFFFC, and changes neither RAM nor
\* the cycle counter
ResetState ==
    last.op = "reset" =>
        /\ register_a = 0 /\ register_x = 0 /\ register_y = 0
        /\ stack_pointer = \hFD
        /\ status = \h24
        /\ program_counter = RomWord(rom, \hFFFC)
        /\ cpu_vram = last.pre.cpu_vram
        /\ cycles = last.pre.cycles

\* a reset of a machine that has run: registers, stack pointer, flags, RAM
\* and cycle counter all differ from a new machine's
ResetAfterRun ==
    /\ last.op = "reset"
    /\ last.pre.register_a # 0 /\ last.pre.register_x # 0
    /\ last.pre.register_y # 0
    /\ last.pre.stack_pointer # \hFD
    /\ last.pre.status # \h24
    /\ last.pre.cpu_vram # NoCells
    /\ last.pre.cycles > 0

\* the byte a read of addr returns in machine m
Peek(m, addr) == mem_read([m EXCEPT !.events = <<>>], addr % 65536).val

\* the effective address of the instruction at p in machine m, by mode
EffectiveAddress(m, mode, p) ==
    LET operand == Peek(m, p + 1)
        word == operand + 256 * Peek(m, p + 2)
        pointer(z) == Peek(m, z % 256) + 256 * Peek(m, (z + 1) % 256)
    IN  CASE mode = Imm -> (p + 1) % 65536
          [] mode = Zp  -> operand
          [] mode = ZpX -> (operand + m.register_x) % 256
          [] mode = ZpY -> (operand + m.register_y) % 256
          [] mode = Abs -> word
          [] mode = AbX -> (word + m.register_x) % 65536
          [] mode = AbY -> (word + m.register_y) % 65536
          [] mode = InX -> pointer(operand + m.register_x)
          [] mode = InY -> (pointer(operand) + m.register_y) % 65536

\* the byte the instruction at p of machine m operates on
OperandByte(m, code, p) ==
    Peek(m, EffectiveAddress(m, OpCode(code).mode, p))

\* Z and N of P say that the byte is zero, or has bit 7 set
ZeroNegativeFrom(byte) ==
    /\ (BitAnd(status, \h02) # 0) <=> (byte = 0)
    /\ (BitAnd(status, \h80) # 0) <=> (byte >= 128)

\* the register LDA, LDX or LDY loads
LoadedRegister(code) ==
    IF code \in {\hA9, \hA5, \hB5, \hAD, \hBD, \hB9, \hA1, \hB1}
        THEN register_a
    ELSE IF code \in {\hA2, \hA6, \hB6, \hAE, \hBE} THEN register_x
    ELSE register_y

\* C11: after LDA, LDX or LDY in any addressing mode the target register
\* holds the byte read at the effective address, Z is set iff that byte is
\* 0 and N iff its bit 7 is 1
LoadsReadEffectiveAddress ==
    last.op = "run_iteration" =>
        \A i \in EventsOf("fetch") :
            events[i][3] \in LoadCodes =>
                /\ LoadedRegister(events[i][3])
                       = OperandByte(last.pre, events[i][3], events[i][2])
                /\ ZeroNegativeFrom(
                       OperandByte(last.pre, events[i][3], events[i][2]))

\* an LDA (zp),Y whose index crossed a page and that loaded a negative byte
LoadedNegativeAcrossPage ==
    /\ last.op = "run_iteration"
    /\ Fetched(\hB1)
    /\ register_a >= 128
    /\ register_a # last.pre.register_a
    /\ cycles = last.pre.cycles + OpCode(\hB1).cycles + 1

\* what INC, INX and INY add modulo 256, and what DEC, DEX and DEY add
StepOf(code) ==
    IF code \in {\hE6, \hF6, \hEE, \hFE, \hE8, \hC8} THEN 1 ELSE 255

\* the operand of INC, DEC, INX, INY, DEX or DEY at p, as machine m holds it
StepOperand(m, code, p) ==
    IF code \in {\hE8, \hCA} THEN m.register_x
    ELSE IF code \in {\hC8, \h88} THEN m.register_y
    ELSE OperandByte(m, code, p)

\* the same operand, the same effective address, after the instruction
SteppedOperand(code, p) ==
    IF code \in {\hE8, \hCA} THEN register_x
    ELSE IF code \in {\hC8, \h88} THEN register_y
    ELSE Peek(Machine, EffectiveAddress(last.pre, OpCode(code).mode, p))

\* C12: INX, INY, DEX, DEY, INC and DEC change their register or memory
\* operand by exactly +1 or -1 modulo 256 and set Z and N from the new
\* value; two INX from X = 0xFF give X = 1
StepsByOneModulo256 ==
    (last.op = "run_iteration" /\ ~Panicked(Machine)) =>
        \A i \in EventsOf("fetch") :
            events[i][3] \in StepCodes =>
                /\ SteppedOperand(events[i][3], events[i][2])
                       = (StepOperand(last.pre, events[i][3], events[i][2])
                              + StepOf(events[i][3])) % 256
                /\ ZeroNegativeFrom(
                       SteppedOperand(events[i][3], events[i][2]))
                /\ (/\ events[i][3] = \hE8
                    /\ calls = 2
                    /\ last.start.register_x = \hFF) => register_x = 1

\* the second of two INX that began with X = 0xFF
TwoInxFromFF ==
    /\ Fetched(\hE8)
    /\ calls = 2
    /\ last.start.register_x = \hFF
    /\ last.pre.register_x = 0
    /\ BitAnd(last.pre.status, \h02) # 0
    /\ register_x = 1

\* the source and the destination of a transfer opcode
TransferOf(code) ==
    CASE code = \hAA -> [from |-> "register_a", to |-> "register_x"]
      [] code = \hA8 -> [from |-> "register_a", to |-> "register_y"]
      [] code = \hBA -> [from |-> "stack_pointer", to |-> "register_x"]
      [] code = \h8A -> [from |-> "register_x", to |-> "register_a"]
      [] code = \h9A -> [from |-> "register_x", to |-> "stack_pointer"]
      [] code = \h98 -> [from |-> "register_y", to |-> "register_a"]

RegisterNames ==
    {"register_a", "register_x", "register_y", "stack_pointer"}

\* C13: TAX, TAY, TXA, TYA and TSX copy the source register to the
\* destination, set Z and N from the copied value and change no other
\* register; TXS copies X to S and leaves P entirely unchanged
TransfersCopy ==
    last.op = "run_iteration" =>
        \A i \in EventsOf("fetch") :
            events[i][3] \in TransferCodes =>
                /\ Machine[TransferOf(events[i][3]).to]
                       = last.pre[TransferOf(events[i][3]).from]
                /\ \A r \in RegisterNames \ {TransferOf(events[i][3]).to} :
                       Machine[r] = last.pre[r]
                /\ IF events[i][3] = \h9A
                       THEN status = last.pre.status
                       ELSE /\ ZeroNegativeFrom(
                                   last.pre[TransferOf(events[i][3]).from])
                            /\ BitAnd(status, \h7D)
                                   = BitAnd(last.pre.status, \h7D)

\* a TXS that copied a zero X over a different S and left Z clear
TransferredToStackPointer ==
    /\ Fetched(\h9A)
    /\ last.pre.register_x = 0
    /\ last.pre.stack_pointer = \hFD
    /\ stack_pointer = 0
    /\ status = \h24

\* A + M + C of the instruction at p of machine m
AdderSum(m, p) ==
    m.register_a + Peek(m, p + 1) + BitAnd(m.status, \h01)

\* C14: ADC leaves A = (A + M + C) mod 256, C = 1 iff A + M + C > 0xFF,
\* V = 1 iff A and M have the same sign bit and the result's differs, and Z
\* and N from the result
AdcAddsWithCarry ==
    last.op = "run_iteration" =>
        \A i \in EventsOf("fetch") :
            events[i][3] = \h69 =>
                /\ register_a = AdderSum(last.pre, events[i][2]) % 256
                /\ (BitAnd(status, \h01) # 0)
                       <=> (AdderSum(last.pre, events[i][2]) > \hFF)
                /\ (BitAnd(status, \h40) # 0)
                       <=> (/\ (last.pre.register_a >= 128)
                                   <=> (Peek(last.pre, events[i][2] + 1)
                                            >= 128)
                            /\ (register_a >= 128)
                                   # (last.pre.register_a >= 128))
                /\ ZeroNegativeFrom(register_a)

\* 0x50 + 0x50 with the carry clear gave 0xA0 with V and N set, C clear
AddedIntoSignBit ==
    /\ Fetched(\h69)
    /\ last.pre.register_a = \h50
    /\ Peek(last.pre, last.pre.program_counter + 1) = \h50
    /\ last.pre.status = \h24
    /\ register_a = \hA0
    /\ status = \hE4

\* the machine an ADC # with this operand leaves when run in place of the
\* latest instruction
AdcInstead(operand) ==
    run_iteration([last.pre EXCEPT
                     !.events = <<>>,
                     !.cpu_vram = Planted(NoCells, last.pre.program_counter,
                                          <<\h69, operand>>)])

\* C15: SBC with operand M produces the same A and the same C, V, Z and N
\* as ADC with operand M XOR 0xFF from the same starting state
SbcIsAdcOfComplement ==
    last.op = "run_iteration" =>
        \A i \in EventsOf("fetch") :
            events[i][3] = \hE9 =>
                LET added == AdcInstead(
                                 BitXor(Peek(last.pre, events[i][2] + 1),
                                        \hFF))
                IN  /\ register_a = added.register_a
                    /\ BitAnd(status, \hC3) = BitAnd(added.status, \hC3)

\* 0x50 - 0xF0 with the carry set gave 0x60 with the borrow (C clear)
SubtractedWithBorrow ==
    /\ Fetched(\hE9)
    /\ last.pre.register_a = \h50
    /\ Peek(last.pre, last.pre.program_counter + 1) = \hF0
    /\ last.pre.status = \h25
    /\ register_a = \h60
    /\ status = \h24

\* whether machine m takes the branch opcode
Branches(m, code) ==
    CASE code = \h10 -> BitAnd(m.status, \h80) = 0
      [] code = \h30 -> BitAnd(m.status, \h80) # 0
      [] code = \h50 -> BitAnd(m.status, \h40) = 0
      [] code = \h70 -> BitAnd(m.status, \h40) # 0
      [] code = \h90 -> BitAnd(m.status, \h01) = 0
      [] code = \hB0 -> BitAnd(m.status, \h01) # 0
      [] code = \hD0 -> BitAnd(m.status, \h02) = 0
      [] code = \hF0 -> BitAnd(m.status, \h02) # 0

\* the target of the branch at p of machine m: the following instruction's
\* address plus the signed offset
BranchTarget(m, p) ==
    (p + 2 + Peek(m, p + 1) + (IF Peek(m, p + 1) >= 128 THEN 65280 ELSE 0))
        % 65536

\* the cycles a branch at p of machine m adds to its base cycles
BranchPenalty(m, code, p) ==
    IF ~Branches(m, code) THEN 0
    ELSE IF BranchTarget(m, p) \div 256 = ((p + 2) % 65536) \div 256 THEN 1
    ELSE 2

\* C16: a branch charges its base cycles when not taken, base + 1 when
\* taken to a target on the page of the following instruction, and base + 2
\* when taken to a target on a different page
BranchCycles ==
    (last.op = "run_iteration" /\ EventsOf("interrupt") = {}) =>
        \A i \in EventsOf("fetch") :
            events[i][3] \in BranchCodes =>
                cycles = last.pre.cycles + OpCode(events[i][3]).cycles
                             + BranchPenalty(last.pre, events[i][3],
                                             events[i][2])

\* a BNE at 0x06FE taken backwards by one, off the page of the instruction
\* that follows it at 0x0700
BranchedOffPage ==
    /\ Fetched(\hD0)
    /\ last.pre.program_counter = \h06FE
    /\ Branches(last.pre, \hD0)
    /\ BranchTarget(last.pre, \h06FE) = \h06FF
    /\ cycles = last.pre.cycles + OpCode(\hD0).cycles + 2

\* C17: mem_write(0x4014, d) hands the PPU a 256-byte buffer whose i-th byte
\* is the value mem_read returns for address (d << 8) + i, for i = 0..255 in
\* ascending order (the PPU stores the i-th byte at OAM address oam_addr + i)
DmaCopiesPage ==
    (last.op = "mem_write" /\ last.addr = \h4014 /\ ~Panicked(Machine)) =>
        \A i \in 0 .. 255 :
            CellAt(ppu.oam_data, (last.pre.ppu.oam_addr + i) % 256, 0)
                = Peek(last.pre, last.data * 256 + i)

\* a DMA of page 2 that found the last byte of the page populated
DmaOfPopulatedPage ==
    /\ last.op = "mem_write"
    /\ last.addr = \h4014
    /\ last.data = \h02
    /\ CellAt(last.pre.cpu_vram, \h02FF, 0) = \h80
    /\ CellAt(ppu.oam_data, \hFF, 0) = \h80
    /\ CellAt(ppu.oam_data, \h00, 0) = 0

\* the k-th button of A, B, SELECT, START, UP, DOWN, LEFT, RIGHT: 1 if pressed
Button(k) == (joypad1.button_status \div (2 ^ (k - 1))) % 2

\* C18: after a write of 1 and then of 0 to 0x4016 the k-th read of 0x4016
\* (k = 1..8) returns button k in the order A, B, SELECT, START, UP, DOWN,
\* LEFT, RIGHT and every later read returns 1; while strobe is asserted
\* every read returns the A button and the read index stays 0
ControllerShiftsButtons ==
    last.op = "mem_read" =>
        /\ (last.phase = "shift" /\ last.reads \in 1 .. 8) =>
               last.val = Button(last.reads)
        /\ (last.phase = "shift" /\ last.reads > 8) => last.val = 1
        /\ last.phase = "strobe" =>
               last.val = Button(1) /\ joypad1.button_index = 0

\* with only RIGHT pressed, the eighth read after the strobe returned 1 and
\* the seven before it left the index at 7
ReadRightButton ==
    /\ last.op = "mem_read"
    /\ last.phase = "shift"
    /\ last.reads = 8
    /\ joypad1.button_status = \h80
    /\ last.pre.joypad1.button_index = 7
    /\ last.val = 1

\* ROM addresses: code, data, a vector, the last byte
RomProbes == {\h8000, \h8005, \hC000, \hFFFA, \hFFFF}

\* C19: mem_write to an address in 0x8000..0xFFFF ends in a fatal error and
\* never changes the PRG-ROM, so a read of a ROM address returns the same
\* byte throughout
RomIsReadOnly ==
    last.op # "new" =>
        /\ (last.op = "mem_write" /\ last.addr >= \h8000) =>
               panic = "Attempt to write to Cartridge ROM space"
        /\ rom = last.pre.rom
        /\ \A a \in RomProbes :
               read_prg_rom(Machine, a).val = read_prg_rom(last.pre, a).val

\* a write of another byte than the one the ROM holds at 0xC000
WroteToRom ==
    /\ last.op = "mem_write"
    /\ last.addr = \hC000
    /\ last.data = \h55
    /\ Panicked(Machine)
    /\ read_prg_rom(Machine, \hC000).val \notin {0, \h55}

\* C20: mem_read of every address returns a byte without aborting and
\* mem_write of every address below 0x8000 completes without aborting;
\* reads and writes in 0x4020..0x7FFF return 0 / do nothing and leave RAM,
\* controller and cycle counter unchanged
BusDecodeTotal ==
    /\ last.op = "mem_read" => ~Panicked(Machine)
    /\ (last.op = "mem_write" /\ last.addr < \h8000) => ~Panicked(Machine)
    /\ (/\ last.op \in {"mem_read", "mem_write"}
        /\ last.addr \in \h4020 .. \h7FFF) =>
           /\ last.op = "mem_read" => last.val = 0
           /\ cpu_vram = last.pre.cpu_vram
           /\ joypad1 = last.pre.joypad1
           /\ cycles = last.pre.cycles


\* the machine of the latest loop iteration right after its fetch
AfterFetch == fetch(Entered).st

\* the loop is still running: it has neither returned nor aborted
LoopProceeds == at = "run" /\ ~Panicked(Machine)

\* the outcome a BRK iteration has from its fetch on: the loop has returned
\* with the stack, the cycle counter and P as the fetch left them
ReturnedFromFetch ==
    /\ at = "returned"
    /\ ~Panicked(Machine)
    /\ stack_pointer = AfterFetch.stack_pointer
    /\ cpu_vram = AfterFetch.cpu_vram
    /\ cycles = AfterFetch.cycles
    /\ status = AfterFetch.status

\* C21: run_with_callback returns only in an iteration whose fetched opcode
\* byte is 0x00; for every other opcode the loop proceeds to the next
\* iteration, and on the BRK exit nothing is pushed, no cycles are charged
\* and P is unchanged.  (A store that the bus aborts as a write to the
\* cartridge ROM is a fatal error by design and not an executed instruction.)
ReturnsOnlyOnBrk ==
    (/\ last.op = "run_iteration"
     /\ panic # "Attempt to write to Cartridge ROM space") =>
        \A i \in EventsOf("fetch") :
            IF events[i][3] = \h00 THEN ReturnedFromFetch ELSE LoopProceeds


\* the cycles that the calls of tick on record have counted, from the i-th
\* record on
RECURSIVE TickedFrom(_, _)
TickedFrom(evs, i) ==
    IF i > Len(evs) THEN 0
    ELSE (IF evs[i][1] = "tick" THEN evs[i][2] ELSE 0) + TickedFrom(evs, i + 1)

\* C22: the bus cycle counter never decreases across instructions, NMI
\* entries and bus accesses, and it changes only inside Bus::tick: an
\* operation advances it by what its calls of tick counted, and by nothing
\* else
CyclesOnlyThroughTick ==
    last.op # "new" =>
        /\ cycles >= last.pre.cycles
        /\ cycles = last.pre.cycles + TickedFrom(events, 1)

\* an iteration entered the NMI and ran the handler's first instruction:
\* tick counted the 2 cycles of the entry and then those of the instruction
CountedEntryAndInstruction ==
    /\ last.op = "run_iteration"
    /\ EventsOf("interrupt") = {1}
    /\ \E i, j \in EventsOf("tick") :
           i < j /\ events[i][2] = 2 /\ events[j][2] > 2
    /\ cycles > last.pre.cycles + 2


\* the records of the calls of tick that the NMI entry of the latest
\* iteration made, and of those its instruction made
EntryTicks == { i \in EventsOf("tick") : \A j \in EventsOf("fetch") : i < j }
InstructionTicks ==
    { i \in EventsOf("tick") : \E j \in EventsOf("fetch") : j < i }

\* C23: for every instruction and for NMI entry, every tick charged for it
\* happens after all of that step's memory writes and register updates
\* (A, X, Y, P, S, PC) have been made: during the tick the registers and RAM
\* are what the step leaves
TicksFollowSideEffects ==
    (last.op = "run_iteration" /\ ~Panicked(Machine)) =>
        /\ \A i \in EntryTicks : events[i][5] = CpuSide(Entered)
        /\ \A i \in InstructionTicks : events[i][5] = CpuSide(Machine)


\* the byte at the effective address of the instruction at p, after it
WrittenBack(code, p) ==
    Peek(Machine, EffectiveAddress(last.pre, OpCode(code).mode, p))

\* ASL, SLO shift left; LSR, SRE shift right
ShiftsLeft(code) == code \in {\h06, \h16, \h0E, \h1E} \cup SloCodes

\* the shifted byte, and the bit shifted out
Shifted(code, byte) ==
    IF ShiftsLeft(code) THEN (2 * byte) % 256 ELSE byte \div 2
ShiftedOut(code, byte) ==
    IF ShiftsLeft(code) THEN byte \div 128 ELSE byte % 2

\* C24: for ASL and LSR on a memory operand M, the value written back is
\* M << 1 (ASL) or M >> 1 (LSR), C is the bit shifted out, and Z and N are
\* set from the shifted result written to memory, not from the original M
ShiftsSetFlagsFromResult ==
    (last.op = "run_iteration" /\ ~Panicked(Machine)) =>
        \A i \in EventsOf("fetch") :
            events[i][3] \in ShiftCodes =>
                /\ WrittenBack(events[i][3], events[i][2])
                       = Shifted(events[i][3],
                                 OperandByte(last.pre, events[i][3],
                                             events[i][2]))
                /\ BitAnd(status, \h01)
                       = ShiftedOut(events[i][3],
                                    OperandByte(last.pre, events[i][3],
                                                events[i][2]))
                /\ ZeroNegativeFrom(WrittenBack(events[i][3], events[i][2]))


\* C25: SLO leaves A = A OR (M << 1) and SRE leaves A = A XOR (M >> 1): each
\* combines A with the shifted value that was written back to memory, as
\* RLA combines A with the rotated value; Z and N follow the new A
ShiftedValueCombinesWithA ==
    (last.op = "run_iteration" /\ ~Panicked(Machine)) =>
        \A i \in EventsOf("fetch") :
            /\ events[i][3] \in SloCodes =>
                   /\ register_a
                          = BitOr(last.pre.register_a,
                                  Shifted(events[i][3],
                                          OperandByte(last.pre, events[i][3],
                                                      events[i][2])))
                   /\ register_a
                          = BitOr(last.pre.register_a,
                                  WrittenBack(events[i][3], events[i][2]))
            /\ events[i][3] \in SreCodes =>
                   /\ register_a
                          = BitXor(last.pre.register_a,
                                   Shifted(events[i][3],
                                           OperandByte(last.pre, events[i][3],
                                                       events[i][2])))
                   /\ register_a
                          = BitXor(last.pre.register_a,
                                   WrittenBack(events[i][3], events[i][2]))
            /\ events[i][3] \in RlaCodes =>
                   register_a
                       = BitAnd(last.pre.register_a,
                                WrittenBack(events[i][3], events[i][2]))
            /\ events[i][3] \in SloCodes \cup SreCodes \cup RlaCodes =>
                   ZeroNegativeFrom(register_a)


\* C, Z and N of P are those of a comparison of the register byte with the
\* memory byte: C iff memory <= register, Z iff they are equal, N bit 7 of
\* register - memory
ComparedWith(reg, mem) ==
    /\ (BitAnd(status, \h01) # 0) <=> (mem <= reg)
    /\ (BitAnd(status, \h02) # 0) <=> (mem = reg)
    /\ (BitAnd(status, \h80) # 0) <=> ((reg + 256 - mem) % 256 >= 128)

\* C26: DCP writes (M - 1) mod 256 back to the effective address and then
\* compares it with A: C = 1 iff the new M <= A (C is cleared otherwise),
\* Z = 1 iff they are equal, N = bit 7 of A - new M
DcpDecrementsThenCompares ==
    (last.op = "run_iteration" /\ ~Panicked(Machine)) =>
        \A i \in EventsOf("fetch") :
            events[i][3] \in DcpCodes =>
                /\ WrittenBack(events[i][3], events[i][2])
                       = (OperandByte(last.pre, events[i][3], events[i][2])
                              + 255) % 256
                /\ ComparedWith(register_a,
                                WrittenBack(events[i][3], events[i][2]))

\* C27: after ANC (opcodes 0x0B, 0x2B) A = A AND operand, Z and N follow the
\* new A, and C equals N (C = 1 iff bit 7 of the new A is 1) for every
\* starting state
AncCopiesNegativeToCarry ==
    (last.op = "run_iteration" /\ ~Panicked(Machine)) =>
        \A i \in EventsOf("fetch") :
            events[i][3] \in AncCodes =>
                /\ register_a
                       = BitAnd(last.pre.register_a,
                                OperandByte(last.pre, events[i][3],
                                            events[i][2]))
                /\ ZeroNegativeFrom(register_a)
                /\ (BitAnd(status, \h01) # 0) <=> (register_a >= 128)

\* C28: after AXS (opcode 0xCB) X = ((A AND X) - M) mod 256, Z and N follow
\* the new X, and C = 1 iff M <= (A AND X) and C = 0 otherwise, independent
\* of the carry value before the instruction
AxsSubtractsWithoutBorrow ==
    (last.op = "run_iteration" /\ ~Panicked(Machine)) =>
        \A i \in EventsOf("fetch") :
            events[i][3] \in AxsCodes =>
                /\ register_x
                       = (BitAnd(last.pre.register_a, last.pre.register_x)
                              + 256
                              - OperandByte(last.pre, events[i][3],
                                            events[i][2])) % 256
                /\ ZeroNegativeFrom(register_x)
                /\ (BitAnd(status, \h01) # 0)
                       <=> (OperandByte(last.pre, events[i][3], events[i][2])
                                <= BitAnd(last.pre.register_a,
                                          last.pre.register_x))


\* the operand word of the instruction at p of machine m
OperandWord(m, p) == Peek(m, p + 1) + 256 * Peek(m, p + 2)

\* C29: JSR at opcode address p pushes the word p + 2 (high byte first, then
\* low byte) and sets PC to its operand word; a following RTS with the stack
\* unmodified in between sets PC to p + 3 and restores S to its value before
\* the JSR, for every p and every S including S wrapping past 0x00
JsrThenRtsReturns ==
    last.op = "run_iteration" =>
        \A i \in EventsOf("fetch") :
            /\ (events[i][3] = \h20 /\ calls = 1) =>
                   /\ Pushed(Machine, last.pre.stack_pointer, 0)
                          = ((events[i][2] + 2) % 65536) \div 256
                   /\ Pushed(Machine, last.pre.stack_pointer, 1)
                          = (events[i][2] + 2) % 256
                   /\ stack_pointer = WrapSub8(last.pre.stack_pointer, 2)
                   /\ program_counter = OperandWord(last.pre, events[i][2])
            /\ (events[i][3] = \h60 /\ calls = 2) =>
                   /\ program_counter
                          = (last.start.program_counter + 3) % 65536
                   /\ stack_pointer = last.start.stack_pointer


\* the address that an indexed mode adds its index register to, for the
\* instruction at p of machine m
IndexedBase(m, mode, p) ==
    IF mode = InY
        THEN Peek(m, Peek(m, p + 1))
                 + 256 * Peek(m, (Peek(m, p + 1) + 1) % 256)
        ELSE OperandWord(m, p)

\* the address computation of the instruction at p changes the high byte
CrossesPage(m, code, p) ==
    /\ OpCode(code).mode \in {AbX, AbY, InY}
    /\ IndexedBase(m, OpCode(code).mode, p) \div 256
           # EffectiveAddress(m, OpCode(code).mode, p) \div 256

\* C30: LDA/LDX/LDY, ADC/SBC, AND/ORA/EOR and CMP charge exactly base + 1
\* cycles when their Absolute,X / Absolute,Y / (Indirect),Y address
\* computation changes the high byte and exactly base cycles otherwise;
\* STA, STX and STY charge exactly base cycles whether or not the page is
\* crossed
PageCrossPenalty ==
    (last.op = "run_iteration" /\ ~Panicked(Machine)) =>
        \A i \in EventsOf("fetch") :
            /\ events[i][3] \in PenalisedCodes =>
                   cycles = last.pre.cycles + OpCode(events[i][3]).cycles
                                + (IF CrossesPage(last.pre, events[i][3],
                                                  events[i][2])
                                       THEN 1 ELSE 0)
            /\ events[i][3] \in StoreCodes =>
                   cycles = last.pre.cycles + OpCode(events[i][3]).cycles

\* an STA (zp),Y that stored across a page boundary, from the pointer 0x00FF
\* to 0x0100, for its base cycles
StoredAcrossPage ==
    /\ last.op = "run_iteration"
    /\ Fetched(\h91)
    /\ CrossesPage(last.pre, \h91, last.pre.program_counter)
    /\ EffectiveAddress(last.pre, InY, last.pre.program_counter) = \h0100
    /\ Peek(Machine, \h0100) = register_a
    /\ Peek(last.pre, \h0100) # register_a
    /\ cycles = last.pre.cycles + OpCode(\h91).cycles


\* the machine of the latest loop iteration when the handler of its
\* instruction has finished, before the cycles are charged and PC advanced
AfterHandler == dispatch(fetch(Entered)).st

\* C31: the length-based PC advance is applied only to instructions that are
\* not jumps, taken branches, calls or returns: after every JMP, JSR, RTS,
\* RTI and taken branch, PC equals exactly the target the handler computed,
\* including when that target equals the address of the byte following the
\* opcode
JumpsLandOnTarget ==
    (last.op = "run_iteration" /\ ~Panicked(Machine)) =>
        \A i \in EventsOf("fetch") :
            (events[i][3] \in Jumps \/ BranchTaken(events[i][3])) =>
                program_counter = AfterHandler.program_counter


(***************************************************************************)
(* The cartridge window: one read of any address of 0x8000..0xFFFF, from   *)
(* a bus built over either image.                                          *)
(***************************************************************************)
RomAddrs == \h8000 .. \hFFFF

RomRead(addr) ==
    /\ BusCall([op |-> "mem_read", addr |-> addr,
                val |-> mem_read(Entering(0), addr).val, pre |-> <<>>],
               mem_read(Entering(0), addr).st)

\* the one read of a run, of a bus that has not been used
RomNext ==
    /\ at = "new"
    /\ calls = 0
    /\ \E addr \in RomAddrs : RomRead(addr)

RomSpec == Init /\ [][RomNext]_vars

\* C32: when the PRG-ROM is 16 KiB, mem_read(a) = mem_read(a - 0x4000) for
\* every a in 0xC000..0xFFFF; when it is 32 KiB, mem_read(a) returns ROM
\* byte a - 0x8000 for every a in 0x8000..0xFFFF; no ROM read indexes
\* outside the ROM
RomWindowMirrors ==
    (last.op = "mem_read" /\ last.addr \in RomAddrs) =>
        /\ panic # "index out of bounds"
        /\ (rom.len = \h4000 /\ last.addr >= \hC000) =>
               /\ last.val = Peek(last.pre, last.addr - \h4000)
               /\ last.val = CellAt(rom.bytes, last.addr - \hC000, rom.fill)
        /\ (rom.len = \h4000 /\ last.addr < \hC000) =>
               last.val = CellAt(rom.bytes, last.addr - \h8000, rom.fill)
        /\ rom.len = \h8000 =>
               last.val = CellAt(rom.bytes, last.addr - \h8000, rom.fill)

\* the high byte of the NMI vector of the 16 KiB image, read at 0xFFFB
ReadMirroredVector ==
    /\ last.op = "mem_read"
    /\ rom.len = \h4000
    /\ last.addr = \hFFFB
    /\ last.val = \hC0
    /\ Peek(last.pre, \hBFFB) = \hC0
    /\ ~Panicked(Machine)


(***************************************************************************)
(* Every opcode, one instruction at a time as above, over a stack page     *)
(* that holds bytes with bit 4 set, with and without an NMI latched by the *)
(* PPU when the loop is entered.                                           *)
(***************************************************************************)
\* the PPU after a vertical blank with the NMI enabled, the latch not polled
LatchedPPU ==
    [NewPPU EXCEPT !.ctrl = \h80, !.status = \h80, !.vblanks = 1,
                   !.nmi_interrupt = TRUE]

FlagInit ==
    /\ register_a \in RegisterBytes
    /\ register_x = \h01
    /\ register_y = \h01
    /\ status \in StatusBytes
    /\ stack_pointer \in StackPointers
    /\ program_counter = \h0600
    /\ \E instruction \in Instructions :
           cpu_vram = Planted(DataRam, program_counter,
                              instruction \o instruction)
    /\ rom = HarnessRom
    /\ ppu \in {NewPPU, LatchedPPU}
    /\ cycles = 0
    /\ joypad1 = NewJoypad
    /\ frames = 0
    /\ panic = NoPanic
    /\ overflow_checks \in BOOLEAN
    /\ at = "run"
    /\ calls = 0
    /\ events = <<>>
    /\ last = [op |-> "loaded"]

FlagSpec == FlagInit /\ [][InstrStep]_vars

\* the byte on top of the stack when the handler of the latest iteration's
\* instruction starts
Pulled ==
    Peek(AfterFetch, \h0100 + WrapAdd8(AfterFetch.stack_pointer, 1))

\* C33: in every state reachable from reset(), bit 4 (B) of the CPU status
\* register is 0: PHP and NMI entry put B only into the byte pushed on the
\* stack, and PLP and RTI clear B in the value they pull, whatever byte was
\* on the stack
BreakFlagStaysClear ==
    /\ BitAnd(status, \h10) = 0
    /\ (last.op = "run_iteration" /\ ~Panicked(Machine)) =>
           /\ Fetched(\h08) =>
                  /\ status = AfterFetch.status
                  /\ Peek(Machine, \h0100 + AfterFetch.stack_pointer)
                         = BitOr(status, \h30)
           /\ EventsOf("interrupt") # {} =>
                  Entered.status = BitOr(last.pre.status, \h04)
           /\ (Fetched(\h28) \/ Fetched(\h40)) =>
                  status = BitOr(BitAnd(Pulled, \hEF), \h20)

\* PLP has pulled the byte 0x55, in which bit 4 is set
PulledSetBreakBit ==
    /\ last.op = "run_iteration"
    /\ ~Panicked(Machine)
    /\ Fetched(\h28)
    /\ Pulled = \h55
    /\ status = \h65


(***************************************************************************)
(* OAM DMA from any kind of page: a host, some buttons pressed, that       *)
(* stores to RAM page 2, writes the strobe of the controller port, lets    *)
(* the bus tick and starts a DMA from a page of RAM, of the PPU registers, *)
(* of the I/O ports or of the ROM.                                         *)
(***************************************************************************)
SourceAddrs == {\h0200, \h4016, \h4014}

\* bytes to store, strobe values, and pages: the zero page, the stack page,
\* page 2 of RAM, the PPU registers, the I/O ports, and pages of the ROM
SourceBytes == {\h00, \h01, \h02, \h20, \h40, \h80, \hFF}

SourceNext ==
    \/ \E addr \in SourceAddrs, data \in SourceBytes : BusWrite(addr, data)
    \/ \E k \in {0, 1} : BusTick(7, k)

SourceSpec == JoypadInit /\ [][SourceNext]_vars

\* the machine apart from the PPU's OAM
OutsideOam(m) ==
    [m EXCEPT !.ppu.oam_data = NoCells, !.ppu.until_vblank = 0,
              !.events = <<>>]

\* C34: OAM DMA triggered by mem_write(0x4014, d) changes only the PPU's
\* OAM, for every source page d: CPU RAM, the bus cycle counter, the PPU dot
\* position and the controller's strobe and read index are the same after
\* the write as before it
DmaChangesOnlyOam ==
    (last.op = "mem_write" /\ last.addr = \h4014) =>
        /\ OutsideOam(Machine) = OutsideOam(last.pre)
        /\ cpu_vram = last.pre.cpu_vram
        /\ cycles = last.pre.cycles
        /\ ppu.dots = last.pre.ppu.dots
        /\ joypad1.strobe = last.pre.joypad1.strobe
        /\ joypad1.button_index = last.pre.joypad1.button_index

=============================================================================
